---- MODULE Spec2Model ----
(***************************************************************************)
(* A model of the C-like source analyzer: the scanner (Lexer), the         *)
(* recursive-descent parser (Parser) and the driver (CodeAnalyzer).        *)
(*                                                                         *)
(* Characters are one-character strings, texts and token values are        *)
(* sequences of characters.  The NUL character is the string "NUL".        *)
(* AST nodes are records with a "kind" field; an absent (null) child is    *)
(* the record Null.                                                        *)
(***************************************************************************)
EXTENDS Integers, Sequences, FiniteSets, TLC

VARIABLES
    lexer,      \* the Lexer object
    lexPc,      \* "new", "reset", "used": how the Lexer was last prepared; "loop": inside tokenize()
    results,    \* what the tokenize() calls made so far returned
    parser,     \* the Parser object
    stack,      \* the frames of the parsing routines in progress, innermost last
    returned,   \* the node the last return of a parsing routine delivered
    program,    \* what parse() returned
    parsePc,    \* "idle", "running" (inside parse()), "done"
    iterations, \* iterations completed by the statement loops of parseProgram
                \* and parseCompoundStatement
    analyzer,   \* the CodeAnalyzer object
    called      \* the last call of a helper of the Parser on its own:
                \* [op, type, before], before the Parser at the call

vars == <<lexer, lexPc, results, parser, stack, returned, program, parsePc, iterations, analyzer,
          called>>
lexVars == <<lexer, lexPc, results>>
parseVars == <<parser, stack, returned, program, parsePc, iterations>>

(***************************************************************************)
(* Bounds of the model.                                                    *)
(***************************************************************************)
\* longest text drawn exhaustively over Sigma
MaxLen == 3
\* tokenize() calls made on one text
MaxCalls == 2
\* longest token sequence drawn exhaustively over Kinds (its EOF not counted)
MaxToks == 3
\* deepest nesting of if statements in the drawn programs
MaxNest == 3
\* most binary operators in a drawn expression
MaxOps == 2
\* longest source text drawn over the small alphabets of numbers and comments
MaxLong == 5
\* most NEWLINE tokens between the header of a construct and its body
MaxNewlines == 2

(***************************************************************************)
(* Characters.                                                             *)
(***************************************************************************)
NUL == "NUL"

Digits == {"0", "1", "2", "3", "4", "5", "6", "7", "8", "9"}

Letters == {"a", "b", "c", "d", "e", "f", "g", "h", "i", "j", "k", "l", "m",
            "n", "o", "p", "q", "r", "s", "t", "u", "v", "w", "x", "y", "z",
            "A", "B", "C", "D", "E", "F", "G", "H", "I", "J", "K", "L", "M",
            "N", "O", "P", "Q", "R", "S", "T", "U", "V", "W", "X", "Y", "Z"}

Spaces == {" ", "\t", "\n", "\r", "\f", "VT"}

isdigit(c) == c \in Digits
isalpha(c) == c \in Letters
isalnum(c) == isalpha(c) \/ isdigit(c)
isspace(c) == c \in Spaces

\* the characters the exhaustive texts are drawn from
Sigma == {"1", "a", ".", "/", "*", "\n", " ", "\"", "@", "\\", NUL}

(***************************************************************************)
(* Tokens and the keyword table.                                           *)
(***************************************************************************)
Token(type, value, line, column) ==
    [type |-> type, value |-> value, line |-> line, column |-> column]

Str_int == <<"i", "n", "t">>
Str_float == <<"f", "l", "o", "a", "t">>
Str_char == <<"c", "h", "a", "r">>
Str_if == <<"i", "f">>
Str_else == <<"e", "l", "s", "e">>
Str_while == <<"w", "h", "i", "l", "e">>
Str_for == <<"f", "o", "r">>
Str_return == <<"r", "e", "t", "u", "r", "n">>
Str_void == <<"v", "o", "i", "d">>
Str_break == <<"b", "r", "e", "a", "k">>
Str_continue == <<"c", "o", "n", "t", "i", "n", "u", "e">>
Str_include == <<"i", "n", "c", "l", "u", "d", "e">>
Str_define == <<"d", "e", "f", "i", "n", "e">>

getKeywordType(word) ==
    CASE word = Str_int -> "INT"
      [] word = Str_float -> "FLOAT_KW"
      [] word = Str_char -> "CHAR"
      [] word = Str_if -> "IF"
      [] word = Str_else -> "ELSE"
      [] word = Str_while -> "WHILE"
      [] word = Str_for -> "FOR"
      [] word = Str_return -> "RETURN"
      [] word = Str_void -> "VOID"
      [] word = Str_break -> "BREAK"
      [] word = Str_continue -> "CONTINUE"
      [] word = Str_include -> "INCLUDE"
      [] word = Str_define -> "DEFINE"
      [] OTHER -> "IDENTIFIER"

(***************************************************************************)
(* The scanner.  A Lexer object is a record                                *)
(*   [text, pos, line, column, tokens, errors];                            *)
(* pos is 0-based as in the code, text[pos] is L.text[L.pos + 1].          *)
(***************************************************************************)
LexicalError(msg, line, column) ==
    [message |-> msg, line |-> line, column |-> column]

NewLexer(text) ==
    [text |-> text, pos |-> 0, line |-> 1, column |-> 1,
     tokens |-> << >>, errors |-> << >>]

currentChar(L) ==
    IF L.pos >= Len(L.text) THEN NUL ELSE L.text[L.pos + 1]

peekChar(L, offset) ==
    IF L.pos + offset >= Len(L.text) THEN NUL ELSE L.text[L.pos + offset + 1]

\* a faulty advance (C24 tells it apart): the column goes on after a newline
advance_KeepColumn(L) ==
    IF L.pos < Len(L.text) /\ L.text[L.pos + 1] = "\n"
    THEN [L EXCEPT !.line = @ + 1, !.column = @ + 1, !.pos = @ + 1]
    ELSE [L EXCEPT !.column = @ + 1, !.pos = @ + 1]

advance(L) ==
    IF L.pos < Len(L.text) /\ L.text[L.pos + 1] = "\n"
    THEN [L EXCEPT !.line = @ + 1, !.column = 1, !.pos = @ + 1]
    ELSE [L EXCEPT !.column = @ + 1, !.pos = @ + 1]

RECURSIVE skipWhitespace(_)
skipWhitespace(L) ==
    IF currentChar(L) # NUL /\ isspace(currentChar(L)) /\ currentChar(L) # "\n"
    THEN skipWhitespace(advance(L))
    ELSE L

RECURSIVE skipLineComment(_)
skipLineComment(L) ==
    IF currentChar(L) # NUL /\ currentChar(L) # "\n"
    THEN skipLineComment(advance(L))
    ELSE L

\* the loop of skipComment over the body of a /* comment
RECURSIVE skipBlockComment(_)
skipBlockComment(L) ==
    IF currentChar(L) # NUL
    THEN IF currentChar(L) = "*" /\ peekChar(L, 1) = "/"
         THEN [lex |-> advance(advance(L)), ok |-> TRUE]
         ELSE skipBlockComment(advance(L))
    ELSE [lex |-> [L EXCEPT !.errors =
                      Append(@, LexicalError(<<"Unterminated comment">>, L.line, L.column))],
          ok |-> FALSE]

skipComment(L) ==
    IF currentChar(L) = "/" /\ peekChar(L, 1) = "/"
    THEN [lex |-> skipLineComment(L), ok |-> TRUE]
    ELSE IF currentChar(L) = "/" /\ peekChar(L, 1) = "*"
         THEN skipBlockComment(advance(advance(L)))
         ELSE [lex |-> L, ok |-> FALSE]

\* a faulty createErrorToken (C14 tells it apart): the error is recorded and
\* the token returned is the end-of-input token
createErrorToken_EndOfInput(L, message) ==
    [lex |-> [L EXCEPT !.errors = Append(@, LexicalError(message, L.line, L.column))],
     tok |-> Token("EOF_TOKEN", << >>, L.line, L.column)]

createErrorToken(L, message) ==
    [lex |-> [L EXCEPT !.errors = Append(@, LexicalError(message, L.line, L.column))],
     tok |-> Token("ERROR", <<currentChar(L)>>, L.line, L.column)]

\* a faulty loop of readNumber (C21 tells it apart): the first . is taken
\* without a look at the character after it
RECURSIVE readNumberLoop_NoLookahead(_, _, _)
readNumberLoop_NoLookahead(L, result, hasDot) ==
    IF currentChar(L) # NUL /\ (isdigit(currentChar(L)) \/ currentChar(L) = ".")
    THEN IF currentChar(L) = "."
         THEN IF hasDot
              THEN [lex |-> L, result |-> result, hasDot |-> hasDot]
              ELSE readNumberLoop_NoLookahead(advance(L), Append(result, currentChar(L)), TRUE)
         ELSE readNumberLoop_NoLookahead(advance(L), Append(result, currentChar(L)), hasDot)
    ELSE [lex |-> L, result |-> result, hasDot |-> hasDot]

\* the loop of readNumber: [lex, result, hasDot]
RECURSIVE readNumberLoop(_, _, _)
readNumberLoop(L, result, hasDot) ==
    IF currentChar(L) # NUL /\ (isdigit(currentChar(L)) \/ currentChar(L) = ".")
    THEN IF currentChar(L) = "."
         THEN IF ~isdigit(peekChar(L, 1)) \/ hasDot
              THEN [lex |-> L, result |-> result, hasDot |-> hasDot]
              ELSE readNumberLoop(advance(L), Append(result, currentChar(L)), TRUE)
         ELSE readNumberLoop(advance(L), Append(result, currentChar(L)), hasDot)
    ELSE [lex |-> L, result |-> result, hasDot |-> hasDot]

\* a faulty readNumber (C11 tells it apart): a number with a fraction is given
\* the kind INTEGER
readNumber_IntegerOnly(L) ==
    LET r == readNumberLoop(L, << >>, FALSE)
    IN  IF r.result[Len(r.result)] = "."
        THEN createErrorToken(r.lex, <<"Invalid number format">>)
        ELSE [lex |-> r.lex, tok |-> Token("INTEGER", r.result, L.line, L.column)]

readNumber(L) ==
    LET r == readNumberLoop(L, << >>, FALSE)
    IN  IF r.result[Len(r.result)] = "."
        THEN createErrorToken(r.lex, <<"Invalid number format">>)
        ELSE IF r.hasDot
             THEN [lex |-> r.lex, tok |-> Token("FLOAT", r.result, L.line, L.column)]
             ELSE [lex |-> r.lex, tok |-> Token("INTEGER", r.result, L.line, L.column)]

RECURSIVE readIdentifierLoop(_, _)
readIdentifierLoop(L, result) ==
    IF currentChar(L) # NUL /\ (isalnum(currentChar(L)) \/ currentChar(L) = "_")
    THEN readIdentifierLoop(advance(L), Append(result, currentChar(L)))
    ELSE [lex |-> L, result |-> result]

readIdentifier(L) ==
    LET r == readIdentifierLoop(L, << >>)
    IN  [lex |-> r.lex,
         tok |-> Token(getKeywordType(r.result), r.result, L.line, L.column)]

\* the character an escape sequence \c stands for
Unescape(c) ==
    CASE c = "n" -> "\n"
      [] c = "t" -> "\t"
      [] c = "r" -> "\r"
      [] OTHER -> c

RECURSIVE readStringLoop(_, _, _)
readStringLoop(L, quoteChar, result) ==
    IF currentChar(L) # NUL /\ currentChar(L) # quoteChar
    THEN IF currentChar(L) = "\\"
         THEN LET L1 == advance(L)
              IN  IF currentChar(L1) # NUL
                  THEN readStringLoop(advance(L1), quoteChar,
                                      Append(result, Unescape(currentChar(L1))))
                  ELSE readStringLoop(L1, quoteChar, result)
         ELSE readStringLoop(advance(L), quoteChar, Append(result, currentChar(L)))
    ELSE [lex |-> L, result |-> result]

\* a faulty readString (C22 tells it apart): a string that the end of the
\* text cuts short is returned as a STRING token
readString_AcceptUnterminated(L) ==
    LET quoteChar == currentChar(L)
        r == readStringLoop(advance(L), quoteChar, << >>)
    IN  [lex |-> IF currentChar(r.lex) # quoteChar THEN r.lex ELSE advance(r.lex),
         tok |-> Token("STRING", r.result, L.line, L.column)]

readString(L) ==
    LET quoteChar == currentChar(L)
        r == readStringLoop(advance(L), quoteChar, << >>)
    IN  IF currentChar(r.lex) # quoteChar
        THEN createErrorToken(r.lex, <<"Unterminated string">>)
        ELSE [lex |-> advance(r.lex),
              tok |-> Token("STRING", r.result, L.line, L.column)]

DoubleCharType(ch, nextCh) ==
    CASE ch = "=" /\ nextCh = "=" -> "EQ"
      [] ch = "!" /\ nextCh = "=" -> "NE"
      [] ch = "<" /\ nextCh = "=" -> "LE"
      [] ch = ">" /\ nextCh = "=" -> "GE"
      [] ch = "&" /\ nextCh = "&" -> "AND"
      [] ch = "|" /\ nextCh = "|" -> "OR"
      [] ch = "+" /\ nextCh = "+" -> "INCREMENT"
      [] ch = "-" /\ nextCh = "-" -> "DECREMENT"
      [] OTHER -> "none"

SingleCharType(ch) ==
    CASE ch = "+" -> "PLUS"
      [] ch = "-" -> "MINUS"
      [] ch = "*" -> "MULTIPLY"
      [] ch = "/" -> "DIVIDE"
      [] ch = "%" -> "MODULO"
      [] ch = "=" -> "ASSIGN"
      [] ch = "<" -> "LANGLE"
      [] ch = ">" -> "RANGLE"
      [] ch = "!" -> "NOT"
      [] ch = ";" -> "SEMICOLON"
      [] ch = "," -> "COMMA"
      [] ch = "(" -> "LPAREN"
      [] ch = ")" -> "RPAREN"
      [] ch = "{" -> "LBRACE"
      [] ch = "}" -> "RBRACE"
      [] ch = "#" -> "HASH"
      [] ch = "." -> "ERROR"
      [] OTHER -> "none"

\* one call of getNextToken: [lex, tok]
RECURSIVE getNextToken(_)
getNextToken(L) ==
    IF currentChar(L) = NUL
    THEN [lex |-> L, tok |-> Token("EOF_TOKEN", << >>, L.line, L.column)]
    ELSE
    LET ch == currentChar(L)
        nextCh == peekChar(L, 1)
    IN  IF isspace(ch)
        THEN IF ch = "\n"
             THEN [lex |-> advance(L),
                   tok |-> Token("NEWLINE", <<ch>>, L.line, L.column)]
             ELSE getNextToken(skipWhitespace(L))
        ELSE IF ch = "/" /\ (nextCh = "/" \/ nextCh = "*")
        THEN LET c == skipComment(L)
             IN  IF ~c.ok
                 THEN createErrorToken(c.lex, <<"Unterminated comment">>)
                 ELSE getNextToken(c.lex)
        ELSE IF isdigit(ch) THEN readNumber(L)
        ELSE IF isalpha(ch) \/ ch = "_" THEN readIdentifier(L)
        ELSE IF ch = "\"" \/ ch = "'" THEN readString(L)
        ELSE IF DoubleCharType(ch, nextCh) # "none"
        THEN [lex |-> advance(advance(L)),
              tok |-> Token(DoubleCharType(ch, nextCh), <<ch, nextCh>>, L.line, L.column)]
        ELSE IF SingleCharType(ch) # "none"
        THEN [lex |-> advance(L),
              tok |-> Token(SingleCharType(ch), <<ch>>, L.line, L.column)]
        ELSE createErrorToken(advance(L), <<"Unexpected character '", ch, "'">>)

\* a faulty tokenize (C1 tells it apart): the loop of tokenize breaks at EOF before it pushes the token
tokenizeStep_BreakBeforePush(L) ==
    LET r == getNextToken(L)
    IN  [lex |-> IF r.tok.type = "EOF_TOKEN" THEN r.lex
                 ELSE [r.lex EXCEPT !.tokens = Append(@, r.tok)],
         done |-> r.tok.type = "EOF_TOKEN"]

\* one iteration of the loop of tokenize: [lex, done], done when it breaks
tokenizeStep(L) ==
    LET r == getNextToken(L)
    IN  [lex |-> [r.lex EXCEPT !.tokens = Append(@, r.tok)],
         done |-> r.tok.type = "EOF_TOKEN"]

\* the loop of tokenize, run to its end
RECURSIVE tokenizeLoop(_)
tokenizeLoop(L) ==
    LET r == tokenizeStep(L)
    IN  IF r.done THEN r.lex ELSE tokenizeLoop(r.lex)

\* tokenize(): the Lexer after the call; the returned vector is its tokens
tokenize(L) ==
    tokenizeLoop([L EXCEPT !.tokens = << >>, !.errors = << >>])

\* a faulty reset (C4 tells it apart): it rewinds the position but not the line and column
reset_KeepLine(L) == [L EXCEPT !.pos = 0, !.tokens = << >>, !.errors = << >>]

reset(L) ==
    [L EXCEPT !.pos = 0, !.line = 1, !.column = 1,
              !.tokens = << >>, !.errors = << >>]

(***************************************************************************)
(* AST nodes.                                                              *)
(***************************************************************************)
Null == [kind |-> "Null"]

ProgramNode(stmts) == [kind |-> "Program", statements |-> stmts]
VarDeclarationNode(type, id, init) ==
    [kind |-> "VarDeclaration", type |-> type, identifier |-> id, initializer |-> init]
BinaryExpressionNode(op, left, right) ==
    [kind |-> "BinaryExpression", operator_ |-> op, left |-> left, right |-> right]
UnaryExpressionNode(op, operand) ==
    [kind |-> "UnaryExpression", operator_ |-> op, operand |-> operand]
LiteralNode(val, t) == [kind |-> "Literal", value |-> val, type |-> t]
IdentifierNode(n) == [kind |-> "Identifier", name |-> n]
IfStatementNode(c, t, e) ==
    [kind |-> "IfStatement", condition |-> c, thenStatement |-> t, elseStatement |-> e]
WhileStatementNode(c, b) == [kind |-> "WhileStatement", condition |-> c, body |-> b]
ForStatementNode(i, c, u, b) ==
    [kind |-> "ForStatement", initialization |-> i, condition |-> c, update |-> u,
     body |-> b]
CompoundStatementNode(stmts) == [kind |-> "CompoundStatement", statements |-> stmts]
ReturnStatementNode(e) == [kind |-> "ReturnStatement", expression |-> e]
BreakStatementNode == [kind |-> "BreakStatement"]
ContinueStatementNode == [kind |-> "ContinueStatement"]
PreprocessorDirectiveNode(dir, cont) ==
    [kind |-> "PreprocessorDirective", directive |-> dir, content |-> cont]
FunctionDeclarationNode(rt, n, ps) ==
    [kind |-> "FunctionDeclaration", returnType |-> rt, name |-> n, parameters |-> ps]
FunctionDefinitionNode(rt, n, ps, b) ==
    [kind |-> "FunctionDefinition", returnType |-> rt, name |-> n, parameters |-> ps,
     body |-> b]
FunctionCallNode(n, args) == [kind |-> "FunctionCall", name |-> n, arguments |-> args]
ExpressionStatementNode(e) == [kind |-> "ExpressionStatement", expression |-> e]

Str_ERROR == <<"E", "R", "R", "O", "R">>

(***************************************************************************)
(* The parser.  A Parser object is a record [tokens, currentToken, errors];*)
(* currentToken is 0-based as in the code.                                 *)
(***************************************************************************)
SyntaxError(msg, line, column) ==
    [message |-> msg, line |-> line, column |-> column]

NewParser(toks) == [tokens |-> toks, currentToken |-> 0, errors |-> << >>]

eofToken == Token("EOF_TOKEN", << >>, 0, 0)

getCurrentToken(S) ==
    IF S.currentToken >= Len(S.tokens) THEN eofToken ELSE S.tokens[S.currentToken + 1]

peekToken(S, offset) ==
    IF S.currentToken + offset >= Len(S.tokens)
    THEN eofToken
    ELSE S.tokens[S.currentToken + offset + 1]

isAtEnd(S) == getCurrentToken(S).type = "EOF_TOKEN"

Parser_advance(S) ==
    IF ~isAtEnd(S) THEN [S EXCEPT !.currentToken = @ + 1] ELSE S

check(S, type) == IF isAtEnd(S) THEN FALSE ELSE getCurrentToken(S).type = type

\* match(type): the Parser after the call; the result of match is check(S, type)
match(S, type) == IF check(S, type) THEN Parser_advance(S) ELSE S

\* a faulty recordError (C20 tells it apart): the diagnostic is put in front
\* of the earlier ones
recordError_Prepend(S, message) ==
    [S EXCEPT !.errors =
        <<SyntaxError(message, getCurrentToken(S).line, getCurrentToken(S).column)>> \o @]

\* a faulty recordError (C7 tells it apart): it stores the diagnostic twice
recordError_Twice(S, message) ==
    [S EXCEPT !.errors =
        Append(Append(@, SyntaxError(message, getCurrentToken(S).line,
                                     getCurrentToken(S).column)),
               SyntaxError(message, getCurrentToken(S).line, getCurrentToken(S).column))]

recordError(S, message) ==
    [S EXCEPT !.errors =
        Append(@, SyntaxError(message, getCurrentToken(S).line, getCurrentToken(S).column))]

\* a faulty consume (C17 tells it apart): on a mismatch it records the
\* diagnostic and skips the token
consume_SkipOnMismatch(S, type, errorMessage) ==
    IF check(S, type)
    THEN [st |-> Parser_advance(S), tok |-> getCurrentToken(S)]
    ELSE [st |-> Parser_advance(recordError(S, errorMessage)),
          tok |-> getCurrentToken(S)]

\* consume(type, errorMessage): [st, tok]
consume(S, type, errorMessage) ==
    IF check(S, type)
    THEN [st |-> Parser_advance(S), tok |-> getCurrentToken(S)]
    ELSE [st |-> recordError(S, errorMessage),
          tok |-> getCurrentToken(recordError(S, errorMessage))]

SyncKeywords == {"INT", "FLOAT_KW", "CHAR", "IF", "WHILE", "FOR", "RETURN"}

RECURSIVE synchronizeLoop(_)
synchronizeLoop(S) ==
    IF ~isAtEnd(S)
    THEN IF S.tokens[S.currentToken].type = "SEMICOLON" THEN S
         ELSE IF getCurrentToken(S).type \in SyncKeywords THEN S
         ELSE synchronizeLoop(Parser_advance(S))
    ELSE S

synchronize(S) == synchronizeLoop(Parser_advance(S))

\* while (match(TokenType::NEWLINE)) {}
RECURSIVE skipNewlines(_)
skipNewlines(S) ==
    IF check(S, "NEWLINE") THEN skipNewlines(Parser_advance(S)) ELSE S

isTypeKeyword(S) == check(S, "INT") \/ check(S, "FLOAT_KW") \/ check(S, "CHAR")

\* a faulty test (C19 tells it apart): void is not taken for a return type
isReturnTypeKeyword_NoVoid(S) == isTypeKeyword(S)

isReturnTypeKeyword(S) == isTypeKeyword(S) \/ check(S, "VOID")

\* #include <...>: the loop collecting the file name, [st, content]
RECURSIVE includeLoop(_, _)
includeLoop(S, content) ==
    IF ~check(S, "RANGLE") /\ ~check(S, "NEWLINE") /\ ~isAtEnd(S)
    THEN includeLoop(Parser_advance(S), content \o getCurrentToken(S).value)
    ELSE [st |-> S, content |-> content]

\* #define and other directives: the loop collecting the line, [st, content]
RECURSIVE directiveLoop(_, _)
directiveLoop(S, content) ==
    IF ~check(S, "NEWLINE") /\ ~isAtEnd(S)
    THEN directiveLoop(Parser_advance(S),
                       (IF content # << >> THEN content \o <<" ">> ELSE content)
                           \o getCurrentToken(S).value)
    ELSE [st |-> S, content |-> content]

\* parseStatement after match(HASH)
parsePreprocessor(S) ==
    IF check(S, "INCLUDE")
    THEN LET S1 == Parser_advance(S)
         IN  IF check(S1, "LANGLE")
             THEN LET r == includeLoop(Parser_advance(S1), << >>)
                  IN  IF check(r.st, "RANGLE")
                      THEN [st |-> Parser_advance(r.st),
                            node |-> PreprocessorDirectiveNode("include",
                                        <<"<">> \o r.content \o <<">">>)]
                      ELSE [st |-> recordError(r.st,
                                     <<"Expected '>' to close #include directive">>),
                            node |-> PreprocessorDirectiveNode("include", r.content)]
             ELSE IF check(S1, "STRING")
             THEN [st |-> Parser_advance(S1),
                   node |-> PreprocessorDirectiveNode("include", getCurrentToken(S1).value)]
             ELSE [st |-> recordError(S1,
                            <<"Expected '<filename>' or \"filename\" after #include">>),
                   node |-> PreprocessorDirectiveNode("include", << >>)]
    ELSE IF check(S, "DEFINE")
    THEN LET r == directiveLoop(Parser_advance(S), << >>)
         IN  [st |-> r.st, node |-> PreprocessorDirectiveNode("define", r.content)]
    ELSE LET r == directiveLoop(S, << >>)
         IN  [st |-> r.st, node |-> PreprocessorDirectiveNode("unknown", r.content)]

\* the parameter-list loop of a function header, [st, params].  The variables
\* after an iteration are bound through a one-element set, which evaluates
\* them once: TLC evaluates a LET definition again at each of its uses when it
\* evaluates ENABLED, at a cost that grows with the power of the loop's length
RECURSIVE parameterLoop(_, _)
parameterLoop(S, params) ==
    IF ~check(S, "RPAREN") /\ ~isAtEnd(S)
    THEN LET r == IF isReturnTypeKeyword(S)
                  THEN LET S1 == Parser_advance(S)
                       IN  IF check(S1, "IDENTIFIER")
                           THEN [st |-> Parser_advance(S1),
                                 params |-> Append(params,
                                     VarDeclarationNode(getCurrentToken(S).value,
                                                        getCurrentToken(S1).value, Null))]
                           ELSE [st |-> S1, params |-> params]
                  ELSE IF check(S, "IDENTIFIER")
                  THEN LET S1 == Parser_advance(recordError(S,
                                     <<"Unknown type '", getCurrentToken(S).value,
                                       "' in function parameter">>))
                       IN  [st |-> IF check(S1, "IDENTIFIER") THEN Parser_advance(S1) ELSE S1,
                            params |-> params]
                  ELSE [st |-> Parser_advance(S), params |-> params]
         IN  CHOOSE t \in {parameterLoop(v.st, v.params) :
                              v \in {[st |-> match(r.st, "COMMA"), params |-> r.params]}} : TRUE
    ELSE [st |-> S, params |-> params]

(***************************************************************************)
(* The parsing routines call each other recursively.  A call in progress   *)
(* is a frame [fn, pc, locals...] on the call stack; a routine is an       *)
(* operator of the Parser S, its own frame f and the node ret returned by  *)
(* the call it was waiting for, and runs up to its next call or its        *)
(* return.  Its result [st, push, ret] is the Parser afterwards, the       *)
(* frames that replace its own on the stack, and the node it returns.      *)
(***************************************************************************)
NewFrame(fn) == [fn |-> fn, pc |-> "start"]

\* call fn; self is the caller's frame at the point it resumes
Call(S, self, fn) == [st |-> S, push |-> <<self, NewFrame(fn)>>, ret |-> Null]

\* return fn(): the callee's result is the caller's result
TailCall(S, fn) == [st |-> S, push |-> <<NewFrame(fn)>>, ret |-> Null]

Return(S, node) == [st |-> S, push |-> << >>, ret |-> node]

\* a faulty loop exit (C2 tells it apart): no node for an empty program
programLoop_NullWhenEmpty(S, stmts) ==
    IF ~isAtEnd(S)
    THEN Call(S, [fn |-> "parseProgram", pc |-> "afterStatement", stmts |-> stmts,
                  oldPos |-> S.currentToken], "parseStatement")
    ELSE Return(S, IF stmts = << >> THEN Null ELSE ProgramNode(stmts))

\* the head of the statement loop of parseProgram
programLoop(S, stmts) ==
    IF ~isAtEnd(S)
    THEN Call(S, [fn |-> "parseProgram", pc |-> "afterStatement", stmts |-> stmts,
                  oldPos |-> S.currentToken], "parseStatement")
    ELSE Return(S, ProgramNode(stmts))

\* a faulty iteration (C30 tells it apart): what parseStatement returned is
\* added to the list even when it is no node
programIteration_AppendNull(S, f, ret) ==
    LET S1 == skipNewlines(S)
    IN  [st |-> IF S1.currentToken = f.oldPos /\ ~isAtEnd(S1)
                THEN Parser_advance(recordError(S1,
                         <<"Parser unable to process token, skipping">>))
                ELSE S1,
         stmts |-> Append(f.stmts, ret)]

\* a faulty iteration (C6 tells it apart): it skips the token without a diagnostic
programIteration_SilentSkip(S, f, ret) ==
    LET S1 == skipNewlines(S)
    IN  [st |-> IF S1.currentToken = f.oldPos /\ ~isAtEnd(S1)
                THEN Parser_advance(S1) ELSE S1,
         stmts |-> IF ret # Null THEN Append(f.stmts, ret) ELSE f.stmts]

\* an iteration of the statement loop of parseProgram, from the return of
\* parseStatement to the end of the loop body: [st, stmts]
programIteration(S, f, ret) ==
    LET S1 == skipNewlines(S)
    IN  [st |-> IF S1.currentToken = f.oldPos /\ ~isAtEnd(S1)
                THEN Parser_advance(recordError(S1,
                         <<"Parser unable to process token, skipping">>))
                ELSE S1,
         stmts |-> IF ret # Null THEN Append(f.stmts, ret) ELSE f.stmts]

parseProgram(S, f, ret) ==
    IF f.pc = "start" THEN programLoop(skipNewlines(S), << >>)
    ELSE programLoop(programIteration(S, f, ret).st, programIteration(S, f, ret).stmts)

\* parseStatement, the branch of a function, after the ) of its parameters
functionEnd(S4, returnType, functionName, parameters) ==
    IF check(S4, "SEMICOLON")
    THEN Return(Parser_advance(S4),
                FunctionDeclarationNode(returnType, functionName, parameters))
    ELSE Call(S4, [fn |-> "parseStatement", pc |-> "functionBody",
                   returnType |-> returnType, functionName |-> functionName,
                   parameters |-> parameters], "parseCompoundStatement")

\* parseStatement, the branch of a function, from its parameter list on; p
\* and S4 are bound through one-element sets, for the reason given at
\* parameterLoop
functionParameters(S3, returnType, functionName) ==
    CHOOSE t \in UNION {
        {functionEnd(S4, returnType, functionName, p.params) :
            S4 \in {consume(p.st, "RPAREN",
                            <<"Expected ')' after function parameters">>).st}} :
        p \in {parameterLoop(S3, << >>)}} : TRUE

\* parseStatement, the branch of a function declaration or definition; S3 is
\* bound through a one-element set
parseFunction(S, f, ret) ==
    LET returnType == getCurrentToken(S).value
        S1 == Parser_advance(S)
        functionName == getCurrentToken(S1).value
    IN  CHOOSE t \in {functionParameters(S3, returnType, functionName) :
                         S3 \in {Parser_advance(Parser_advance(S1))}} : TRUE

parseStatement(S0, f, ret) ==
    IF f.pc = "functionBody"
    THEN Return(S0, FunctionDefinitionNode(f.returnType, f.functionName, f.parameters, ret))
    ELSE
    LET S == skipNewlines(S0)
    IN  IF isAtEnd(S) \/ check(S, "RBRACE") THEN Return(S, Null)
        ELSE IF check(S, "HASH")
        THEN LET d == parsePreprocessor(Parser_advance(S)) IN Return(d.st, d.node)
        ELSE IF isReturnTypeKeyword(S) /\ peekToken(S, 1).type = "IDENTIFIER"
                /\ peekToken(S, 2).type = "LPAREN"
        THEN parseFunction(S, f, ret)
        ELSE IF isTypeKeyword(S) THEN TailCall(S, "parseVarDeclaration")
        ELSE IF check(S, "IF") THEN TailCall(Parser_advance(S), "parseIfStatement")
        ELSE IF check(S, "WHILE") THEN TailCall(Parser_advance(S), "parseWhileStatement")
        ELSE IF check(S, "FOR") THEN TailCall(Parser_advance(S), "parseForStatement")
        ELSE IF check(S, "LBRACE") THEN TailCall(S, "parseCompoundStatement")
        ELSE IF check(S, "RETURN") THEN TailCall(Parser_advance(S), "parseReturnStatement")
        ELSE IF check(S, "BREAK")
        THEN Return(consume(Parser_advance(S), "SEMICOLON",
                            <<"Expected ';' after break">>).st, BreakStatementNode)
        ELSE IF check(S, "CONTINUE")
        THEN Return(consume(Parser_advance(S), "SEMICOLON",
                            <<"Expected ';' after continue">>).st, ContinueStatementNode)
        ELSE IF check(S, "IDENTIFIER") /\ peekToken(S, 1).type = "ASSIGN"
        THEN TailCall(S, "parseAssignment")
        ELSE TailCall(S, "parseExpressionStatement")

\* the loop of parseVarDeclaration over ", name [= expr]", then the ';'
RECURSIVE varDeclarationLoop(_, _)
varDeclarationLoop(S, f) ==
    IF check(S, "COMMA")
    THEN LET S1 == consume(Parser_advance(S), "IDENTIFIER",
                           <<"Expected variable name after ','">>).st
         IN  IF check(S1, "ASSIGN")
             THEN Call(Parser_advance(S1), [f EXCEPT !.pc = "skippedInitializer"],
                       "parseExpression")
             ELSE varDeclarationLoop(S1, f)
    ELSE Return(consume(S, "SEMICOLON", <<"Expected ';' after variable declaration">>).st,
                VarDeclarationNode(f.type, f.name, f.initializer))

parseVarDeclaration(S, f, ret) ==
    IF f.pc = "start"
    THEN LET type == getCurrentToken(S).value
             identifier == consume(Parser_advance(S), "IDENTIFIER",
                                   <<"Expected variable name">>)
             varDecl == [fn |-> "parseVarDeclaration", pc |-> "initializer", type |-> type,
                         name |-> identifier.tok.value, initializer |-> Null]
         IN  IF check(identifier.st, "ASSIGN")
             THEN Call(Parser_advance(identifier.st), varDecl, "parseExpression")
             ELSE varDeclarationLoop(identifier.st, varDecl)
    ELSE IF f.pc = "initializer"
    THEN varDeclarationLoop(S, [f EXCEPT !.initializer = ret])
    ELSE varDeclarationLoop(S, f)

parseAssignment(S, f, ret) ==
    IF f.pc = "start"
    THEN LET identifier == consume(S, "IDENTIFIER", <<"Expected identifier">>)
         IN  Call(consume(identifier.st, "ASSIGN", <<"Expected '='">>).st,
                  [fn |-> "parseAssignment", pc |-> "expression",
                   name |-> identifier.tok.value], "parseExpression")
    ELSE Return(consume(S, "SEMICOLON", <<"Expected ';' after assignment">>).st,
                ExpressionStatementNode(
                    BinaryExpressionNode(<<"=">>, IdentifierNode(f.name), ret)))

\* a faulty else check (C9 tells it apart): it looks for the else without
\* skipping the newlines before it
ifElse_NoNewlineSkip(S, f, ret) ==
    IF check(S, "ELSE")
    THEN Call(Parser_advance(S),
              [fn |-> "parseIfStatement", pc |-> "elseStatement",
               condition |-> f.condition, thenStatement |-> ret], "parseStatement")
    ELSE Return(S, IfStatementNode(f.condition, ret, Null))

\* parseIfStatement once the then-branch ret is parsed: the check for an else
ifElse(S, f, ret) ==
    LET S1 == skipNewlines(S)
    IN  IF check(S1, "ELSE")
        THEN Call(Parser_advance(S1),
                  [fn |-> "parseIfStatement", pc |-> "elseStatement",
                   condition |-> f.condition, thenStatement |-> ret], "parseStatement")
        ELSE Return(S1, IfStatementNode(f.condition, ret, Null))

parseIfStatement(S, f, ret) ==
    IF f.pc = "start"
    THEN Call(consume(S, "LPAREN", <<"Expected '(' after 'if'">>).st,
              [fn |-> "parseIfStatement", pc |-> "condition"], "parseExpression")
    ELSE IF f.pc = "condition"
    THEN Call(consume(S, "RPAREN", <<"Expected ')' after if condition">>).st,
              [fn |-> "parseIfStatement", pc |-> "thenStatement", condition |-> ret],
              "parseStatement")
    ELSE IF f.pc = "thenStatement" THEN ifElse(S, f, ret)
    ELSE Return(S, IfStatementNode(f.condition, f.thenStatement, ret))

parseWhileStatement(S, f, ret) ==
    IF f.pc = "start"
    THEN Call(consume(S, "LPAREN", <<"Expected '(' after 'while'">>).st,
              [fn |-> "parseWhileStatement", pc |-> "condition"], "parseExpression")
    ELSE IF f.pc = "condition"
    THEN Call(consume(S, "RPAREN", <<"Expected ')' after while condition">>).st,
              [fn |-> "parseWhileStatement", pc |-> "body", condition |-> ret],
              "parseStatement")
    ELSE Return(S, WhileStatementNode(f.condition, ret))

\* parseForStatement from the update part on; f holds initialization and condition
forUpdate(S, f) ==
    IF ~check(S, "RPAREN")
    THEN Call(S, [f EXCEPT !.pc = "update"], "parseExpression")
    ELSE Call(consume(S, "RPAREN", <<"Expected ')' after for loop">>).st,
              [f EXCEPT !.pc = "body"], "parseStatement")

\* a faulty parseForStatement (C12 tells it apart): it takes the condition part
\* to be empty
forCondition_NoCondition(S, f) ==
    forUpdate(consume(S, "SEMICOLON", <<"Expected ';' after for loop condition">>).st, f)

\* parseForStatement from the condition part on; f holds the initialization
forCondition(S, f) ==
    IF ~check(S, "SEMICOLON")
    THEN Call(S, [f EXCEPT !.pc = "condition"], "parseExpression")
    ELSE forUpdate(consume(S, "SEMICOLON", <<"Expected ';' after for loop condition">>).st,
                   f)

parseForStatement(S, f, ret) ==
    LET forStmt == [fn |-> "parseForStatement", pc |-> "start", initialization |-> Null,
                    condition |-> Null, update |-> Null]
    IN  IF f.pc = "start"
        THEN LET S1 == consume(S, "LPAREN", <<"Expected '(' after 'for'">>).st
             IN  IF isTypeKeyword(S1)
                 THEN Call(S1, [forStmt EXCEPT !.pc = "declaration"], "parseVarDeclaration")
                 ELSE IF ~check(S1, "SEMICOLON")
                 THEN Call(S1, [forStmt EXCEPT !.pc = "initialization"], "parseExpression")
                 ELSE forCondition(consume(S1, "SEMICOLON",
                          <<"Expected ';' after for loop initialization">>).st, forStmt)
        ELSE IF f.pc = "declaration"
        THEN forCondition(S, [f EXCEPT !.initialization = ret])
        ELSE IF f.pc = "initialization"
        THEN forCondition(consume(S, "SEMICOLON",
                 <<"Expected ';' after for loop initialization">>).st,
                 [f EXCEPT !.initialization = ret])
        ELSE IF f.pc = "condition"
        THEN forUpdate(consume(S, "SEMICOLON",
                 <<"Expected ';' after for loop condition">>).st,
                 [f EXCEPT !.condition = ret])
        ELSE IF f.pc = "update"
        THEN Call(consume(S, "RPAREN", <<"Expected ')' after for loop">>).st,
                  [f EXCEPT !.update = ret, !.pc = "body"], "parseStatement")
        ELSE Return(S, ForStatementNode(f.initialization, f.condition, f.update, ret))

\* the head of the statement loop of parseCompoundStatement
compoundLoop(S, stmts) ==
    IF ~check(S, "RBRACE") /\ ~isAtEnd(S)
    THEN Call(S, [fn |-> "parseCompoundStatement", pc |-> "afterStatement",
                  stmts |-> stmts, oldPos |-> S.currentToken], "parseStatement")
    ELSE Return(consume(S, "RBRACE", <<"Expected '}'">>).st, CompoundStatementNode(stmts))

\* an iteration of the statement loop of parseCompoundStatement, from the
\* return of parseStatement to the end of the loop body: [st, stmts]
compoundIteration(S, f, ret) ==
    LET S1 == skipNewlines(S)
    IN  [st |-> IF S1.currentToken = f.oldPos /\ ~isAtEnd(S1) /\ ~check(S1, "RBRACE")
                THEN Parser_advance(recordError(S1, <<"Parser stuck, skipping token">>))
                ELSE S1,
         stmts |-> IF ret # Null THEN Append(f.stmts, ret) ELSE f.stmts]

parseCompoundStatement(S, f, ret) ==
    IF f.pc = "start"
    THEN compoundLoop(skipNewlines(consume(S, "LBRACE", <<"Expected '{'">>).st), << >>)
    ELSE compoundLoop(compoundIteration(S, f, ret).st, compoundIteration(S, f, ret).stmts)

parseReturnStatement(S, f, ret) ==
    IF f.pc = "start" /\ ~check(S, "SEMICOLON")
    THEN Call(S, [fn |-> "parseReturnStatement", pc |-> "expression"], "parseExpression")
    ELSE Return(consume(S, "SEMICOLON", <<"Expected ';' after return statement">>).st,
                ReturnStatementNode(IF f.pc = "start" THEN Null ELSE ret))

parseExpressionStatement(S, f, ret) ==
    IF f.pc = "expression"
    THEN IF ret # Null
         THEN Return(consume(S, "SEMICOLON", <<"Expected ';' after expression">>).st,
                     ExpressionStatementNode(ret))
         ELSE Return(S, Null)
    ELSE IF check(S, "RBRACE") \/ isAtEnd(S) THEN Return(S, Null)
    ELSE IF check(S, "SEMICOLON") THEN Return(Parser_advance(S), Null)
    ELSE IF check(S, "INCREMENT") \/ check(S, "DECREMENT")
    THEN LET S1 == Parser_advance(S)
             isInc == getCurrentToken(S).type = "INCREMENT"
         IN  IF check(S1, "IDENTIFIER")
             THEN Return(consume(Parser_advance(S1), "SEMICOLON",
                                 <<"Expected ';' after increment/decrement">>).st,
                         IdentifierNode((IF isInc THEN <<"+", "+">> ELSE <<"-", "-">>)
                                        \o getCurrentToken(S1).value))
             ELSE Return(recordError(S1,
                             <<"Expected identifier after ",
                               IF isInc THEN "increment" ELSE "decrement", " operator">>),
                         Null)
    ELSE Call(S, [fn |-> "parseExpressionStatement", pc |-> "expression"],
              "parseExpression")

parseExpression(S, f, ret) == TailCall(S, "parseLogicalOr")

\* the six routines of the binary operators, lowest precedence first
BinaryLevels == <<"parseLogicalOr", "parseLogicalAnd", "parseEquality",
                  "parseComparison", "parseAddition", "parseMultiplication">>

\* the routine a binary-operator routine calls for its operands
Operand(fn) ==
    CASE fn = "parseLogicalOr" -> "parseLogicalAnd"
      [] fn = "parseLogicalAnd" -> "parseEquality"
      [] fn = "parseEquality" -> "parseComparison"
      [] fn = "parseComparison" -> "parseAddition"
      [] fn = "parseAddition" -> "parseMultiplication"
      [] fn = "parseMultiplication" -> "parseUnary"

\* the token types a binary-operator routine matches in its loop
Operators(fn) ==
    CASE fn = "parseLogicalOr" -> {"OR"}
      [] fn = "parseLogicalAnd" -> {"AND"}
      [] fn = "parseEquality" -> {"EQ", "NE"}
      [] fn = "parseComparison" -> {"RANGLE", "GE", "LANGLE", "LE"}
      [] fn = "parseAddition" -> {"PLUS", "MINUS"}
      [] fn = "parseMultiplication" -> {"MULTIPLY", "DIVIDE", "MODULO"}

\* a faulty loop (C13 tells it apart): the right operand is parsed by the
\* routine itself, which makes its operators associate to the right
parseBinary_RightAssociative(S, f, ret) ==
    IF f.pc = "start"
    THEN Call(S, [fn |-> f.fn, pc |-> "left"], Operand(f.fn))
    ELSE LET expr == IF f.pc = "left" THEN ret
                     ELSE BinaryExpressionNode(f.operator_, f.expr, ret)
         IN  IF \E t \in Operators(f.fn) : check(S, t)
             THEN Call(Parser_advance(S),
                       [fn |-> f.fn, pc |-> "right", expr |-> expr,
                        operator_ |-> getCurrentToken(S).value], f.fn)
             ELSE Return(S, expr)

\* parseLogicalOr, parseLogicalAnd, parseEquality, parseComparison, parseAddition
\* and parseMultiplication: f.fn names the routine
parseBinary(S, f, ret) ==
    IF f.pc = "start"
    THEN Call(S, [fn |-> f.fn, pc |-> "left"], Operand(f.fn))
    ELSE LET expr == IF f.pc = "left" THEN ret
                     ELSE BinaryExpressionNode(f.operator_, f.expr, ret)
         IN  IF \E t \in Operators(f.fn) : check(S, t)
             THEN Call(Parser_advance(S),
                       [fn |-> f.fn, pc |-> "right", expr |-> expr,
                        operator_ |-> getCurrentToken(S).value], Operand(f.fn))
             ELSE Return(S, expr)

parseUnary(S, f, ret) ==
    IF f.pc = "operand" THEN Return(S, UnaryExpressionNode(f.operator_, ret))
    ELSE IF check(S, "NOT") \/ check(S, "MINUS")
    THEN Call(Parser_advance(S),
              [fn |-> "parseUnary", pc |-> "operand",
               operator_ |-> getCurrentToken(S).value], "parseUnary")
    ELSE TailCall(S, "parsePrimary")

\* a faulty fallback (C5 tells it apart): it also skips the unexpected token
unexpectedToken_Skip(S) ==
    Return(Parser_advance(recordError(S, <<"Expected expression">>)),
           LiteralNode(Str_ERROR, "ERROR"))

\* parsePrimary when the current token starts no alternative
unexpectedToken(S) ==
    Return(recordError(S, <<"Expected expression">>), LiteralNode(Str_ERROR, "ERROR"))

\* the head of the argument loop of a function call in parsePrimary
argumentLoop(S, f) ==
    IF ~check(S, "RPAREN") /\ ~isAtEnd(S)
    THEN Call(S, f, "parseExpression")
    ELSE Return(consume(S, "RPAREN", <<"Expected ')' after function arguments">>).st,
                FunctionCallNode(f.name, f.arguments))

parsePrimary(S, f, ret) ==
    IF f.pc = "argument"
    THEN LET funcCall == IF ret # Null THEN [f EXCEPT !.arguments = Append(@, ret)] ELSE f
         IN  IF check(S, "COMMA")
             THEN argumentLoop(Parser_advance(S), funcCall)
             ELSE Return(consume(S, "RPAREN",
                                 <<"Expected ')' after function arguments">>).st,
                         FunctionCallNode(funcCall.name, funcCall.arguments))
    ELSE IF f.pc = "parenthesized"
    THEN Return(consume(S, "RPAREN", <<"Expected ')' after expression">>).st, ret)
    ELSE IF check(S, "INTEGER") \/ check(S, "FLOAT") \/ check(S, "STRING")
    THEN Return(Parser_advance(S),
                LiteralNode(getCurrentToken(S).value, getCurrentToken(S).type))
    ELSE IF check(S, "IDENTIFIER")
    THEN LET token == getCurrentToken(S)
             S1 == Parser_advance(S)
         IN  IF check(S1, "LPAREN")
             THEN argumentLoop(Parser_advance(S1),
                               [fn |-> "parsePrimary", pc |-> "argument",
                                name |-> token.value, arguments |-> << >>])
             ELSE IF check(S1, "INCREMENT")
             THEN Return(Parser_advance(S1), IdentifierNode(token.value \o <<"+", "+">>))
             ELSE Return(S1, IdentifierNode(token.value))
    ELSE IF check(S, "LPAREN")
    THEN Call(Parser_advance(S), [fn |-> "parsePrimary", pc |-> "parenthesized"],
              "parseExpression")
    ELSE unexpectedToken(S)

\* a faulty parse (C16 tells it apart): it clears the diagnostics but does not
\* rewind the cursor
parse_KeepCursor(S, f, ret) ==
    TailCall([S EXCEPT !.errors = << >>], "parseProgram")

parse(S, f, ret) ==
    TailCall([S EXCEPT !.errors = << >>, !.currentToken = 0], "parseProgram")

(***************************************************************************)
(* The parser as a machine: [st, stack, ret], the Parser object, the call  *)
(* stack (innermost call last) and the node the last return delivered.     *)
(***************************************************************************)
\* the routine of frame f, run up to its next call or its return
Routine(S, f, ret) ==
    CASE f.fn = "parse" -> parse(S, f, ret)
      [] f.fn = "parseProgram" -> parseProgram(S, f, ret)
      [] f.fn = "parseStatement" -> parseStatement(S, f, ret)
      [] f.fn = "parseVarDeclaration" -> parseVarDeclaration(S, f, ret)
      [] f.fn = "parseAssignment" -> parseAssignment(S, f, ret)
      [] f.fn = "parseIfStatement" -> parseIfStatement(S, f, ret)
      [] f.fn = "parseWhileStatement" -> parseWhileStatement(S, f, ret)
      [] f.fn = "parseForStatement" -> parseForStatement(S, f, ret)
      [] f.fn = "parseCompoundStatement" -> parseCompoundStatement(S, f, ret)
      [] f.fn = "parseReturnStatement" -> parseReturnStatement(S, f, ret)
      [] f.fn = "parseExpressionStatement" -> parseExpressionStatement(S, f, ret)
      [] f.fn = "parseExpression" -> parseExpression(S, f, ret)
      [] f.fn = "parseUnary" -> parseUnary(S, f, ret)
      [] f.fn = "parsePrimary" -> parsePrimary(S, f, ret)
      [] OTHER -> parseBinary(S, f, ret)

Top(M) == M.stack[Len(M.stack)]

Running(M) == M.stack # << >>

\* the Parser about to execute its method fn
Invoke(S, fn) == [st |-> S, stack |-> <<NewFrame(fn)>>, ret |-> Null]

step(M) ==
    LET t == Routine(M.st, Top(M), M.ret)
    IN  [st |-> t.st,
         stack |-> SubSeq(M.stack, 1, Len(M.stack) - 1) \o t.push,
         ret |-> t.ret]

\* up to 4 and up to 16 steps of a method, fewer if it returns earlier
next(M) == IF Running(M) THEN step(M) ELSE M
steps4(M) == next(next(next(next(M))))
steps16(M) == steps4(steps4(steps4(steps4(M))))

\* a method run to its return
RECURSIVE run(_)
run(M) == IF Running(M) THEN run(steps16(M)) ELSE M

\* parser.parse() on the token sequence toks: [st, node]
parseResult(toks) ==
    LET M == run(Invoke(NewParser(toks), "parse"))
    IN  [st |-> M.st, node |-> M.ret]

(***************************************************************************)
(* The driver, CodeAnalyzer.  The error handler's list holds               *)
(* [type, message, line, column] records.                                  *)
(***************************************************************************)
ErrorInfo(type, e) ==
    [type |-> type, message |-> e.message, line |-> e.line, column |-> e.column]

\* addLexicalErrors / addSyntaxErrors
addErrors(list, type, errs) ==
    list \o [i \in 1..Len(errs) |-> ErrorInfo(type, errs[i])]

NewAnalyzer(code) ==
    [sourceCode |-> code, tokens |-> << >>, ast |-> Null, errors |-> << >>,
     lexicalSuccess |-> FALSE, syntaxSuccess |-> FALSE, report |-> << >>,
     pc |-> "start"]

performLexicalAnalysis(A) ==
    LET L == tokenize(NewLexer(A.sourceCode))
    IN  IF L.errors # << >>
        THEN [A EXCEPT !.tokens = L.tokens,
                       !.errors = addErrors(@, "LEXICAL_ERROR", L.errors),
                       !.lexicalSuccess = FALSE]
        ELSE [A EXCEPT !.tokens = L.tokens, !.lexicalSuccess = TRUE]

\* performSyntaxAnalysis after parser->parse() returned ast, S the Parser
performSyntaxAnalysis(A, S, ast) ==
    IF S.errors # << >>
    THEN [A EXCEPT !.ast = ast,
                   !.errors = addErrors(@, "SYNTAX_ERROR", S.errors),
                   !.syntaxSuccess = FALSE]
    ELSE [A EXCEPT !.ast = ast, !.syntaxSuccess = TRUE]

SelectType(list, type) == SelectSeq(list, LAMBDA e : e.type = type)

\* printDetailedReport: the lexical errors, then the syntax errors
printDetailedReport(errs) ==
    SelectType(errs, "LEXICAL_ERROR") \o SelectType(errs, "SYNTAX_ERROR")

(***************************************************************************)
(* The inputs.                                                             *)
(***************************************************************************)
SeqsUpTo(S, n) == UNION {[1..k -> S] : k \in 0..n}

\* the source texts: every text over Sigma of at most MaxLen characters
Texts == SeqsUpTo(Sigma, MaxLen)

\* longer texts: every text of digits and dots, and every text of slashes,
\* stars and newlines, of at most MaxLong characters
LongTexts == SeqsUpTo({"1", "."}, MaxLong) \cup SeqsUpTo({"/", "*", "\n"}, MaxLong)

\* declarations T name = literal; with and without blanks around the =
DeclNames == {<<"x">>, <<"a", "1">>, <<"_", "n">>}
LiteralTexts ==
    << <<"5">>, <<"1", "0">>, <<"1", ".", "5">>, <<"\"", "a", "b", "\"">>,
       <<"'", "c", "'">>, <<"\"", "\\", "n", "\"">> >>
Spacings == {<< >>, <<" ">>}

DeclarationText(T, name, l, sp) ==
    T \o <<" ">> \o name \o sp \o <<"=">> \o sp \o LiteralTexts[l] \o <<";">>

Declarations ==
    { DeclarationText(T, name, l, sp) :
        T \in {Str_int, Str_float, Str_char}, name \in DeclNames,
        l \in 1..Len(LiteralTexts), sp \in Spacings }

\* the token kinds the exhaustive token sequences are drawn from
Kinds == {"IDENTIFIER", "INTEGER", "ASSIGN", "SEMICOLON", "LPAREN", "RPAREN",
          "LBRACE", "RBRACE", "IF", "ELSE", "NEWLINE", "INT"}

\* the text of a token of each kind, as the scanner produces it
Lexeme(kind) ==
    CASE kind = "IDENTIFIER" -> <<"x">>
      [] kind = "INTEGER" -> <<"1">>
      [] kind = "ASSIGN" -> <<"=">>
      [] kind = "SEMICOLON" -> <<";">>
      [] kind = "LPAREN" -> <<"(">>
      [] kind = "RPAREN" -> <<")">>
      [] kind = "LBRACE" -> <<"{">>
      [] kind = "RBRACE" -> <<"}">>
      [] kind = "IF" -> Str_if
      [] kind = "ELSE" -> Str_else
      [] kind = "WHILE" -> Str_while
      [] kind = "FOR" -> Str_for
      [] kind = "RETURN" -> Str_return
      [] kind = "BREAK" -> Str_break
      [] kind = "CONTINUE" -> Str_continue
      [] kind = "INT" -> Str_int
      [] kind = "FLOAT_KW" -> Str_float
      [] kind = "CHAR" -> Str_char
      [] kind = "VOID" -> Str_void
      [] kind = "NEWLINE" -> <<"\n">>
      [] kind = "OR" -> <<"|", "|">>
      [] kind = "AND" -> <<"&", "&">>
      [] kind = "EQ" -> <<"=", "=">>
      [] kind = "NE" -> <<"!", "=">>
      [] kind = "LANGLE" -> <<"<">>
      [] kind = "LE" -> <<"<", "=">>
      [] kind = "RANGLE" -> <<">">>
      [] kind = "GE" -> <<">", "=">>
      [] kind = "PLUS" -> <<"+">>
      [] kind = "MINUS" -> <<"-">>
      [] kind = "MULTIPLY" -> <<"*">>
      [] kind = "DIVIDE" -> <<"/">>
      [] kind = "MODULO" -> <<"%">>
      [] kind = "NOT" -> <<"!">>
      [] kind = "INCREMENT" -> <<"+", "+">>
      [] kind = "COMMA" -> <<",">>
      [] kind = "EOF_TOKEN" -> << >>

\* a token sequence of the given kinds, ended by EOF, each token stamped with
\* line 1 and its index as column
Stamp(kinds) ==
    [i \in 1..(Len(kinds) + 1) |->
        IF i <= Len(kinds)
        THEN Token(kinds[i], Lexeme(kinds[i]), 1, i)
        ELSE Token("EOF_TOKEN", << >>, 1, i)]

\* a token before it is given its place: its kind and text
Lex(kind) == [type |-> kind, value |-> Lexeme(kind)]
Id(name) == [type |-> "IDENTIFIER", value |-> name]
Num(digits) == [type |-> "INTEGER", value |-> digits]

\* the token sequence of the given kinds and texts, ended by EOF, each token
\* stamped with line 1 and its index as column
StampTokens(toks) ==
    [i \in 1..(Len(toks) + 1) |->
        IF i <= Len(toks)
        THEN Token(toks[i].type, toks[i].value, 1, i)
        ELSE Token("EOF_TOKEN", << >>, 1, i)]

\* statements without an if: x = 1;  x;  ;  { x; }  int x;
SimpleStatements ==
    { <<"IDENTIFIER", "ASSIGN", "INTEGER", "SEMICOLON">>,
      <<"IDENTIFIER", "SEMICOLON">>,
      <<"SEMICOLON">>,
      <<"LBRACE", "IDENTIFIER", "SEMICOLON", "RBRACE">>,
      <<"INT", "IDENTIFIER", "SEMICOLON">> }

IfHeader == <<"IF", "LPAREN", "IDENTIFIER", "RPAREN">>

RECURSIVE IfHeaders(_)
IfHeaders(n) == IF n = 0 THEN << >> ELSE IfHeader \o IfHeaders(n - 1)

\* if (x) ... if (x) S1 else S2, n ifs deep; nl: a line break before the else
IfChain(n, S1, nl, S2) ==
    IfHeaders(n) \o S1 \o (IF nl THEN <<"NEWLINE">> ELSE << >>) \o <<"ELSE">> \o S2

IfChains ==
    { IfChain(n, S1, nl, S2) :
        n \in 1..MaxNest, S1 \in SimpleStatements, nl \in BOOLEAN, S2 \in SimpleStatements }

\* x = ;
MissingRhs == <<"IDENTIFIER", "ASSIGN", "SEMICOLON">>

\* the statements that follow x = ; on the next line
FollowStatements ==
    SimpleStatements \cup {IfHeader \o S : S \in SimpleStatements}
        \cup {<< >>, MissingRhs, <<"RPAREN">>, <<"IDENTIFIER", "INTEGER">>}

AfterMissingRhs == { MissingRhs \o <<"NEWLINE">> \o S : S \in FollowStatements }

\* the token sequences a Parser is constructed on, as sequences of kinds
KindInputs ==
    SeqsUpTo(Kinds, MaxToks) \cup IfChains \cup AfterMissingRhs \cup FollowStatements

\* the keywords of parseVarDeclaration and of a function header
TypeKinds == {"INT", "FLOAT_KW", "CHAR"}
ReturnTypeKinds == TypeKinds \cup {"VOID"}

\* for (T i = e1; e2; i++) { body }: the expressions e1 and e2 and the bodies
\*   e1:   0        n        n + 1
\*   e2:   i < 10   i        i <= n - 1
\*   body: (empty)  x = x + 1;   x(i); continue;
ForInits ==
    << <<Num(<<"0">>)>>,
       <<Id(<<"n">>)>>,
       <<Id(<<"n">>), Lex("PLUS"), Num(<<"1">>)>> >>
ForConditions ==
    << <<Id(<<"i">>), Lex("LANGLE"), Num(<<"1", "0">>)>>,
       <<Id(<<"i">>)>>,
       <<Id(<<"i">>), Lex("LE"), Id(<<"n">>), Lex("MINUS"), Num(<<"1">>)>> >>
ForBodies ==
    << << >>,
       <<Id(<<"x">>), Lex("ASSIGN"), Id(<<"x">>), Lex("PLUS"), Num(<<"1">>),
         Lex("SEMICOLON")>>,
       <<Id(<<"x">>), Lex("LPAREN"), Id(<<"i">>), Lex("RPAREN"), Lex("SEMICOLON"),
         Lex("NEWLINE"), Lex("CONTINUE"), Lex("SEMICOLON")>> >>

ForTokens(T, a, b, c) ==
    <<Lex("FOR"), Lex("LPAREN"), Lex(T), Id(<<"i">>), Lex("ASSIGN")>> \o ForInits[a]
        \o <<Lex("SEMICOLON")>> \o ForConditions[b]
        \o <<Lex("SEMICOLON"), Id(<<"i">>), Lex("INCREMENT"), Lex("RPAREN"), Lex("LBRACE")>>
        \o ForBodies[c] \o <<Lex("RBRACE")>>

ForInputs ==
    { ForTokens(T, a, b, c) : T \in TypeKinds, a \in 1..Len(ForInits),
                              b \in 1..Len(ForConditions), c \in 1..Len(ForBodies) }

\* function headers T x ( parameters, and what follows the parameters
FunctionParameters ==
    { << >>, <<"INT", "IDENTIFIER">>,
      <<"INT", "IDENTIFIER", "COMMA", "CHAR", "IDENTIFIER">>,
      <<"VOID">>, <<"IDENTIFIER", "IDENTIFIER">>, <<"INTEGER">> }
FunctionTails ==
    { <<"RPAREN", "SEMICOLON">>,
      <<"RPAREN", "LBRACE", "IDENTIFIER", "SEMICOLON", "RBRACE">>,
      <<"RPAREN", "NEWLINE", "LBRACE", "RBRACE">>,
      <<"RPAREN">>, <<"SEMICOLON">>, << >> }
FunctionInputs ==
    { <<T, "IDENTIFIER", "LPAREN">> \o P \o tail :
        T \in ReturnTypeKinds, P \in FunctionParameters, tail \in FunctionTails }

\* token vectors with an EOF token before the last
EofInputs ==
    { <<"IDENTIFIER", "EOF_TOKEN", "IDENTIFIER", "SEMICOLON">>,
      <<"EOF_TOKEN", "INT", "IDENTIFIER", "SEMICOLON">>,
      <<"IF", "LPAREN", "EOF_TOKEN", "RPAREN", "SEMICOLON">>,
      <<"LBRACE", "EOF_TOKEN", "RBRACE">> }

\* the headers of the constructs that have a body: if, while, for, and a
\* function without and with a parameter
Headers ==
    { <<"IF", "LPAREN", "IDENTIFIER", "RPAREN">>,
      <<"WHILE", "LPAREN", "IDENTIFIER", "RPAREN">>,
      <<"FOR", "LPAREN", "SEMICOLON", "SEMICOLON", "RPAREN">>,
      <<"INT", "IDENTIFIER", "LPAREN", "RPAREN">>,
      <<"VOID", "IDENTIFIER", "LPAREN", "INT", "IDENTIFIER", "RPAREN">> }

\* the bodies: blocks, and one statement without braces
Bodies ==
    { <<"LBRACE", "RBRACE">>,
      <<"LBRACE", "IDENTIFIER", "SEMICOLON", "RBRACE">>,
      <<"LBRACE", "NEWLINE", "RBRACE">>,
      <<"IDENTIFIER", "SEMICOLON">> }

Newlines(n) == [i \in 1..n |-> "NEWLINE"]

\* a header, its body on the same line or up to MaxNewlines lines further
HeaderInputs ==
    {h \o Newlines(n) \o b : h \in Headers, b \in Bodies, n \in 0..MaxNewlines}

\* a prefix ++ that no identifier follows, as a statement of the program and
\* of a block, and one that an identifier follows
IncrementInputs ==
    { <<"INCREMENT", "SEMICOLON">>,
      <<"INCREMENT", "INTEGER", "SEMICOLON">>,
      <<"INCREMENT", "IDENTIFIER", "SEMICOLON">>,
      <<"LBRACE", "INCREMENT", "SEMICOLON", "RBRACE">>,
      <<"LBRACE", "INCREMENT", "RBRACE", "IDENTIFIER", "SEMICOLON">> }

\* the token vectors of ParseSpec
ParseInputs ==
    {Stamp(k) : k \in KindInputs \cup FunctionInputs \cup EofInputs \cup HeaderInputs
                        \cup IncrementInputs}
        \cup {StampTokens(t) : t \in ForInputs}

\* expression statements: a op b op c ... ; with at most MaxOps operators, and
\* ! and - before an operand
BinaryOperators == UNION {Operators(BinaryLevels[i]) : i \in 1..Len(BinaryLevels)}
PrefixOperators == {"NOT", "MINUS"}
Names == <<"a", "b", "c", "d">>

ExprTokens(ops) ==
    [i \in 1..(2 * Len(ops) + 1) |->
        IF i % 2 = 1 THEN Id(<<Names[(i + 1) \div 2]>>) ELSE Lex(ops[i \div 2])]
        \o <<Lex("SEMICOLON")>>

PrefixedInputs ==
    { <<Lex(u), Id(<<"a">>), Lex(op), Id(<<"b">>), Lex("SEMICOLON")>> :
        u \in PrefixOperators, op \in BinaryOperators }
    \cup { <<Id(<<"a">>), Lex(op), Lex(u), Id(<<"b">>), Lex("SEMICOLON")>> :
             u \in PrefixOperators, op \in BinaryOperators }
    \cup { <<Lex(u), Lex(v), Id(<<"a">>), Lex("SEMICOLON")>> :
             u \in PrefixOperators, v \in PrefixOperators }

ExprInputs ==
    {ExprTokens(ops) : ops \in SeqsUpTo(BinaryOperators, MaxOps)} \cup PrefixedInputs

(***************************************************************************)
(* LexSpec: a Lexer object on a text; tokenize() is called, the object is  *)
(* reset or constructed anew, and tokenize() is called again.              *)
(***************************************************************************)
IdleParser == NewParser(Stamp(<< >>))
IdleLexer == NewLexer(<< >>)
IdleAnalyzer == NewAnalyzer(<< >>)
NoIterations == [parseProgram |-> 0, parseCompoundStatement |-> 0]
NoCall == [op |-> "none"]

InitLex ==
    /\ lexer \in {NewLexer(t) : t \in Texts \cup LongTexts}
    /\ lexPc = "new"
    /\ results = << >>
    /\ parser = IdleParser /\ stack = << >> /\ returned = Null /\ program = Null
    /\ parsePc = "idle" /\ iterations = NoIterations
    /\ analyzer = IdleAnalyzer
    /\ called = NoCall

\* tokenize() is entered: tokens.clear(); errors.clear();
TokenizeCall ==
    /\ lexPc # "loop"
    /\ Len(results) < MaxCalls
    /\ lexer' = [lexer EXCEPT !.tokens = << >>, !.errors = << >>]
    /\ lexPc' = "loop"
    /\ results' = Append(results, [from |-> lexPc, returned |-> FALSE])
    /\ UNCHANGED <<parseVars, analyzer, called>>

\* one iteration of the loop of tokenize(); after the EOF token, it returns
TokenizeStep ==
    /\ lexPc = "loop"
    /\ LET r == tokenizeStep(lexer)
       IN  /\ lexer' = r.lex
           /\ IF r.done
              THEN /\ lexPc' = "used"
                   /\ results' = [results EXCEPT ![Len(results)] =
                                     [from |-> @.from, returned |-> TRUE,
                                      tokens |-> r.lex.tokens, errors |-> r.lex.errors]]
              ELSE UNCHANGED <<lexPc, results>>
    /\ UNCHANGED <<parseVars, analyzer, called>>

\* reset()
Reset ==
    /\ lexPc = "used"
    /\ lexer' = reset(lexer)
    /\ lexPc' = "reset"
    /\ UNCHANGED <<results, parseVars, analyzer, called>>

\* a new Lexer is constructed on the same text
Construct ==
    /\ lexPc = "used"
    /\ lexer' = NewLexer(lexer.text)
    /\ lexPc' = "new"
    /\ UNCHANGED <<results, parseVars, analyzer, called>>

NextLex == TokenizeCall \/ TokenizeStep \/ Reset \/ Construct

LexSpec == InitLex /\ [][NextLex]_vars

\* a call of tokenize() runs on: nothing suspends the loop
LexSpecFair == LexSpec /\ WF_vars(TokenizeStep)

(***************************************************************************)
(* ParseSpec: a Parser object on a token sequence; parse() is called and   *)
(* runs routine by routine to its return.                                  *)
(***************************************************************************)
InitParse ==
    /\ parser \in {NewParser(t) : t \in ParseInputs}
    /\ stack = << >> /\ returned = Null
    /\ program = Null
    /\ parsePc = "idle"
    /\ iterations = NoIterations
    /\ lexer = IdleLexer /\ lexPc = "new" /\ results = << >>
    /\ analyzer = IdleAnalyzer
    /\ called = NoCall

\* parse() is called, on a Parser just constructed or after an earlier parse()
ParseCall ==
    /\ parsePc \in {"idle", "done"}
    /\ stack' = Invoke(parser, "parse").stack
    /\ parsePc' = "running"
    /\ program' = Null
    /\ iterations' = NoIterations
    /\ UNCHANGED <<parser, returned, lexVars, analyzer, called>>

\* the innermost routine runs up to its next call or its return; iterations
\* counts the iterations the two statement loops have completed
ParseStep ==
    /\ parsePc = "running"
    /\ stack # << >>
    /\ LET M == step([st |-> parser, stack |-> stack, ret |-> returned])
       IN  parser' = M.st /\ stack' = M.stack /\ returned' = M.ret
    /\ iterations' = IF stack[Len(stack)].pc = "afterStatement"
                     THEN [iterations EXCEPT ![stack[Len(stack)].fn] = @ + 1]
                     ELSE iterations
    /\ UNCHANGED <<program, parsePc, lexVars, analyzer, called>>

\* parse() returns the program
ParseReturn ==
    /\ parsePc = "running"
    /\ stack = << >>
    /\ program' = returned
    /\ parsePc' = "done"
    /\ UNCHANGED <<parser, stack, returned, iterations, lexVars, analyzer, called>>

NextParse == ParseCall \/ ParseStep \/ ParseReturn

ParseSpec == InitParse /\ [][NextParse]_vars

\* a call of parse() runs on: nothing suspends it
ParseSpecFair == ParseSpec /\ WF_vars(ParseStep) /\ WF_vars(ParseReturn)

(***************************************************************************)
(* HelperSpec: one call of consume() or of synchronize() on a Parser at   *)
(* any cursor position, with or without an earlier diagnostic.             *)
(***************************************************************************)
\* the token kinds of the vectors the helpers are called on
HelperKinds ==
    {"IDENTIFIER", "SEMICOLON", "INT", "FLOAT_KW", "CHAR", "VOID", "IF", "WHILE", "FOR",
     "RETURN", "BREAK", "CONTINUE"}

\* the token types consume() is called with
ConsumeKinds == {"IDENTIFIER", "SEMICOLON", "EOF_TOKEN"}

\* a Parser on a vector over HelperKinds, at any cursor position, with or
\* without an earlier diagnostic, or a Parser on the empty vector
InitHelper ==
    /\ \/ \E k \in SeqsUpTo(HelperKinds, MaxToks) :
              \E c \in 0..Len(k) :
                  \E e \in {<< >>, <<SyntaxError(<<"Expected expression">>, 1, 1)>>} :
                      parser = [tokens |-> Stamp(k), currentToken |-> c, errors |-> e]
       \/ parser = NewParser(<< >>)
    /\ stack = << >> /\ returned = Null
    /\ program = Null
    /\ parsePc = "idle"
    /\ iterations = NoIterations
    /\ lexer = IdleLexer /\ lexPc = "new" /\ results = << >>
    /\ analyzer = IdleAnalyzer
    /\ called = NoCall

\* consume(type, "Expected token")
Consume ==
    /\ called = NoCall
    /\ \E type \in ConsumeKinds :
           /\ parser' = consume(parser, type, <<"Expected token">>).st
           /\ called' = [op |-> "consume", type |-> type, before |-> parser]
    /\ UNCHANGED <<stack, returned, program, parsePc, iterations, lexVars, analyzer>>

\* synchronize()
Synchronize ==
    /\ called = NoCall
    /\ parser' = synchronize(parser)
    /\ called' = [op |-> "synchronize", before |-> parser]
    /\ UNCHANGED <<stack, returned, program, parsePc, iterations, lexVars, analyzer>>

NextHelper == Consume \/ Synchronize

HelperSpec == InitHelper /\ [][NextHelper]_vars

(***************************************************************************)
(* ExprSpec: parse() on an expression statement.                           *)
(***************************************************************************)
InitExpr ==
    /\ parser \in {NewParser(StampTokens(t)) : t \in ExprInputs}
    /\ stack = << >> /\ returned = Null
    /\ program = Null
    /\ parsePc = "idle"
    /\ iterations = NoIterations
    /\ lexer = IdleLexer /\ lexPc = "new" /\ results = << >>
    /\ analyzer = IdleAnalyzer
    /\ called = NoCall

ExprSpec == InitExpr /\ [][NextParse]_vars

(***************************************************************************)
(* SyntaxOnlySpec: the "syntax analysis only" mode of the driver.  The     *)
(* text is tokenized, then the tokens are parsed whatever the lexical      *)
(* errors were.                                                            *)
(***************************************************************************)
\* performLexicalAnalysis(): tokenize() is called on the new Lexer
LexicalAnalysisCall == lexPc = "new" /\ TokenizeCall

\* performSyntaxAnalysis(): the Parser is constructed on the tokens and
\* parse() is called
SyntaxAnalysisCall ==
    /\ lexPc = "used"
    /\ parsePc = "idle"
    /\ lexer.tokens # << >>
    /\ parser' = NewParser(lexer.tokens)
    /\ stack' = Invoke(NewParser(lexer.tokens), "parse").stack
    /\ parsePc' = "running"
    /\ UNCHANGED <<returned, program, iterations, lexVars, analyzer, called>>

NextSyntaxOnly ==
    LexicalAnalysisCall \/ TokenizeStep \/ SyntaxAnalysisCall \/ ParseStep \/ ParseReturn

SyntaxOnlySpec == InitLex /\ [][NextSyntaxOnly]_vars

(***************************************************************************)
(* Spec: the driver.  CodeAnalyzer::analyze on a source text.              *)
(***************************************************************************)
Init ==
    /\ analyzer \in {NewAnalyzer(t) : t \in Texts \cup Declarations}
    /\ lexer = IdleLexer /\ lexPc = "new" /\ results = << >>
    /\ parser = IdleParser /\ stack = << >> /\ returned = Null /\ program = Null
    /\ parsePc = "idle" /\ iterations = NoIterations
    /\ called = NoCall

\* analyze: bool lexicalSuccess = performLexicalAnalysis();
AnalyzeLexical ==
    /\ analyzer.pc = "start"
    /\ analyzer' = [performLexicalAnalysis(analyzer) EXCEPT !.pc = "lexed"]
    /\ UNCHANGED <<lexVars, parseVars, called>>

\* analyze: if (lexicalSuccess) performSyntaxAnalysis() is entered; it
\* constructs the Parser on the tokens and calls parse()
AnalyzeSyntax ==
    /\ analyzer.pc = "lexed"
    /\ analyzer.lexicalSuccess
    /\ IF analyzer.tokens = << >>
       THEN /\ analyzer' = [analyzer EXCEPT !.syntaxSuccess = FALSE, !.pc = "parsed"]
            /\ UNCHANGED <<parser, stack>>
       ELSE /\ parser' = NewParser(analyzer.tokens)
            /\ stack' = Invoke(NewParser(analyzer.tokens), "parse").stack
            /\ analyzer' = [analyzer EXCEPT !.pc = "parsing"]
    /\ UNCHANGED <<lexVars, returned, program, parsePc, iterations, called>>

\* inside parser->parse(): the innermost routine runs up to its next call or
\* its return
AnalyzeParse ==
    /\ analyzer.pc = "parsing"
    /\ stack # << >>
    /\ LET M == step([st |-> parser, stack |-> stack, ret |-> returned])
       IN  parser' = M.st /\ stack' = M.stack /\ returned' = M.ret
    /\ UNCHANGED <<lexVars, program, parsePc, iterations, analyzer, called>>

\* parse() returned: performSyntaxAnalysis collects the syntax errors
AnalyzeSyntaxEnd ==
    /\ analyzer.pc = "parsing"
    /\ stack = << >>
    /\ analyzer' = [performSyntaxAnalysis(analyzer, parser, returned) EXCEPT !.pc = "parsed"]
    /\ UNCHANGED <<lexVars, parseVars, called>>

\* analyze: showErrorReport(), after the syntax analysis or instead of it
AnalyzeReport ==
    /\ \/ analyzer.pc = "parsed"
       \/ analyzer.pc = "lexed" /\ ~analyzer.lexicalSuccess
    /\ analyzer' = [analyzer EXCEPT !.report = printDetailedReport(analyzer.errors),
                                    !.pc = "done"]
    /\ UNCHANGED <<lexVars, parseVars, called>>

Next == AnalyzeLexical \/ AnalyzeSyntax \/ AnalyzeParse \/ AnalyzeSyntaxEnd \/ AnalyzeReport

Spec == Init /\ [][Next]_vars

(***************************************************************************)
(* Properties of the scanner, checked under LexSpec and LexSpecFair.       *)
(***************************************************************************)
\* a token sequence that is not empty and has one EOF token, its last element
EndsWithOneEof(toks) ==
    /\ Len(toks) > 0
    /\ \A i \in 1..Len(toks) : (toks[i].type = "EOF_TOKEN") <=> (i = Len(toks))

\* the calls of tokenize() that have returned, as indices of results
Returned == {i \in 1..Len(results) : results[i].returned}

\* the calls of tokenize() made on a Lexer just constructed or just reset
Fresh == {i \in Returned : results[i].from \in {"new", "reset"}}

\* C1: every call of tokenize() returns, on every text, and the token sequence
\* it returns is never empty and holds exactly one EOF token, its last element.
C1_TokenizeTerminatesWithOneEof ==
    /\ (lexPc = "loop") ~> (lexPc = "used")
    /\ [](\A i \in Returned : EndsWithOneEof(results[i].tokens))

\* C1 witness: tokenize() has returned three tokens or more for a text
C1_Witness ==
    \E i \in Returned : results[i].from = "new" /\ Len(results[i].tokens) >= 3

StartsUnterminatedComment(text) ==
    /\ Len(text) >= 2 /\ text[1] = "/" /\ text[2] = "*"
    /\ \A k \in 3..(Len(text) - 1) : ~(text[k] = "*" /\ text[k + 1] = "/")

\* C8: when the end of input is reached inside a block comment, tokenize
\* records exactly one lexical error for it and still ends with the EOF token.
C8_UnterminatedCommentOneError ==
    \A i \in Fresh :
        StartsUnterminatedComment(lexer.text) =>
            /\ Len(results[i].errors) = 1
            /\ EndsWithOneEof(results[i].tokens)

\* C8 witness: tokenize() has returned for a text that is an unclosed block
\* comment, with the EOF token last
C8_Witness ==
    \E i \in Fresh :
        /\ StartsUnterminatedComment(lexer.text)
        /\ EndsWithOneEof(results[i].tokens)
        /\ \E k \in 1..Len(results[i].errors) :
               results[i].errors[k].message = <<"Unterminated comment">>

\* the kinds and the texts of a token sequence
KindsOf(toks) == [i \in 1..Len(toks) |-> toks[i].type]
ValuesOf(toks) == [i \in 1..Len(toks) |-> toks[i].value]

\* the characters that open neither a comment nor a string and do not end
\* the input
PlainChars == Sigma \ {"/", "\"", "'", NUL}

\* text[k] opens a block comment that the text never closes, and what
\* precedes it holds neither a comment nor a string
UnterminatedCommentAt(text, k) ==
    /\ k + 1 <= Len(text) /\ text[k] = "/" /\ text[k + 1] = "*"
    /\ \A j \in 1..(k - 1) : text[j] \in PlainChars
    /\ \A j \in (k + 2)..Len(text) : text[j] # NUL
    /\ \A j \in (k + 2)..(Len(text) - 1) : ~(text[j] = "*" /\ text[j + 1] = "/")

\* the tokens of the text before position k, without their EOF token
TokensBefore(text, k) ==
    LET toks == tokenize(NewLexer(SubSeq(text, 1, k - 1))).tokens
    IN  SubSeq(toks, 1, Len(toks) - 1)

\* the token sequences a and b agree in the kinds, lines and columns of their
\* tokens and in the texts of the tokens that are not ERROR tokens
SameTokens(a, b) ==
    /\ Len(a) = Len(b)
    /\ \A j \in 1..Len(a) :
           /\ a[j].type = b[j].type /\ a[j].line = b[j].line /\ a[j].column = b[j].column
           /\ a[j].type # "ERROR" => a[j].value = b[j].value

OperatorChars ==
    {"+", "-", "*", "/", "%", "=", "<", ">", "!", ";", ",", "(", ")", "{", "}", "#"}

\* the characters of Sigma that start no token and are not whitespace
UnexpectedChars ==
    Sigma \ (Digits \cup Letters \cup {"_", "\"", "'"} \cup OperatorChars \cup Spaces
                \cup {NUL})

\* C15: for a text that begins with a character that starts no token and is
\* not whitespace (a lone . included), tokenize records exactly one lexical
\* error for it, whose message contains the character, emits exactly one
\* ERROR token for it and continues with the next character: the further
\* tokens and errors are those of the rest of the text.
C15_UnexpectedCharOneErrorOneToken ==
    \A i \in Fresh :
        (lexer.text # << >> /\ lexer.text[1] \in UnexpectedChars) =>
            LET rest == tokenize(NewLexer(Tail(lexer.text)))
                toks == results[i].tokens
                errs == results[i].errors
            IN  /\ toks[1].type = "ERROR"
                /\ KindsOf(Tail(toks)) = KindsOf(rest.tokens)
                /\ Len(errs) = 1 + Len(rest.errors)
                /\ \E j \in 1..Len(errs[1].message) : errs[1].message[j] = lexer.text[1]

\* C15 witness: tokenize() has returned for a text that begins with @ and
\* goes on with a number: one error, an ERROR token and the INTEGER token
C15_Witness ==
    \E i \in Fresh :
        /\ Len(lexer.text) >= 2 /\ lexer.text[1] = "@" /\ lexer.text[2] = "1"
        /\ Len(results[i].errors) = 1
        /\ results[i].tokens[1].type = "ERROR"
        /\ results[i].tokens[2].type = "INTEGER"

\* the character at the 0-based index i of text, NUL beyond its end
CharAt(text, i) == IF i < Len(text) THEN text[i + 1] ELSE NUL

\* the length of the longest run of digits of text from the 0-based index i
DigitRun(text, i) ==
    CHOOSE n \in 0..Len(text) :
        /\ \A k \in 0..(n - 1) : CharAt(text, i + k) \in Digits
        /\ CharAt(text, i + n) \notin Digits

\* the length of the number at the 0-based index i of text: a run of digits,
\* and a . with the run of digits after it when a digit follows the .
NumberLength(text, i) ==
    LET whole == DigitRun(text, i)
    IN  IF CharAt(text, i + whole) = "." /\ CharAt(text, i + whole + 1) \in Digits
        THEN whole + 1 + DigitRun(text, i + whole + 1)
        ELSE whole

\* the sequence s holds the character c
Holds(s, c) == \E k \in 1..Len(s) : s[k] = c

\* the next token is read by readNumber
AtNumber == lexPc = "loop" /\ isdigit(currentChar(lexer))

\* C21: readNumber, called at a digit, consumes the digits and, with the
\* digits after it, the first . that a digit follows, and no other character;
\* the token has the consumed text, and is FLOAT when the text holds a . and
\* INTEGER otherwise; an Invalid number format error with an ERROR token
\* results exactly when the consumed text ends in a . ; no INTEGER or FLOAT
\* token of the sequence has a text that ends in a .
C21_NumberLiteral ==
    /\ AtNumber =>
           LET r == readNumber(lexer)
               consumed == SubSeq(lexer.text, lexer.pos + 1, r.lex.pos)
               invalid == consumed[Len(consumed)] = "."
           IN  /\ getNextToken(lexer) = r
               /\ Len(consumed) = NumberLength(lexer.text, lexer.pos)
               /\ invalid <=> r.tok.type = "ERROR"
               /\ invalid <=> r.lex.errors =
                       Append(lexer.errors,
                              LexicalError(<<"Invalid number format">>, r.lex.line, r.lex.column))
               /\ ~invalid => /\ r.lex.errors = lexer.errors
                              /\ r.tok.value = consumed
                              /\ r.tok.type = IF Holds(consumed, ".") THEN "FLOAT" ELSE "INTEGER"
    /\ \A k \in 1..Len(lexer.tokens) :
           lexer.tokens[k].type \in {"INTEGER", "FLOAT"} =>
               /\ lexer.tokens[k].value # << >>
               /\ lexer.tokens[k].value[Len(lexer.tokens[k].value)] # "."
               /\ lexer.tokens[k].type = "FLOAT" <=> Holds(lexer.tokens[k].value, ".")

\* C21 witness: the text 1.1.1 has been scanned: the FLOAT 1.1, the second .
\* left to the scanner, and the INTEGER 1
C21_Witness ==
    /\ lexPc = "used"
    /\ lexer.text = <<"1", ".", "1", ".", "1">>
    /\ KindsOf(lexer.tokens) = <<"FLOAT", "ERROR", "INTEGER", "EOF_TOKEN">>
    /\ lexer.tokens[1].value = <<"1", ".", "1">>

\* the string literal whose characters begin at the 0-based index i of text
\* has its closing quote q in the text: a character after a backslash closes
\* nothing
RECURSIVE QuoteClosed(_, _, _)
QuoteClosed(text, i, q) ==
    IF i >= Len(text) THEN FALSE
    ELSE IF text[i + 1] = q THEN TRUE
    ELSE IF text[i + 1] = "\\" THEN QuoteClosed(text, i + 2, q)
    ELSE QuoteClosed(text, i + 1, q)

\* the next token is read by readString
AtString == lexPc = "loop" /\ currentChar(lexer) \in {"\"", "'"}

\* C22: when the next token is a string literal whose closing quote is not in
\* the text, the call records exactly one lexical error, Unterminated string,
\* and returns an ERROR token, and the next call returns the EOF token and
\* records nothing.
C22_UnterminatedString ==
    (AtString /\ ~QuoteClosed(lexer.text, lexer.pos + 1, currentChar(lexer))) =>
        LET r == getNextToken(lexer)
        IN  /\ r.tok.type = "ERROR"
            /\ Len(r.lex.errors) = Len(lexer.errors) + 1
            /\ SubSeq(r.lex.errors, 1, Len(lexer.errors)) = lexer.errors
            /\ r.lex.errors[Len(r.lex.errors)].message = <<"Unterminated string">>
            /\ getNextToken(r.lex).tok.type = "EOF_TOKEN"
            /\ getNextToken(r.lex).lex = r.lex

\* C22 witness: the text of a quote, a backslash and a quote has been
\* scanned: the second quote is escaped, so the tokens are ERROR and EOF
C22_Witness ==
    /\ lexPc = "used"
    /\ lexer.text = <<"\"", "\\", "\"">>
    /\ KindsOf(lexer.tokens) = <<"ERROR", "EOF_TOKEN">>
    /\ Len(lexer.errors) = 1
    /\ lexer.errors[1].message = <<"Unterminated string">>

\* the number of newline characters of text from the 0-based index i on that
\* are outside string literals and block comments; mode tells where the
\* index i is: in the code, in a // comment ("line"), in a block comment
\* ("block") or in a string literal (its quote)
RECURSIVE NewlinesInCode(_, _, _)
NewlinesInCode(text, i, mode) ==
    IF i >= Len(text) THEN 0
    ELSE CASE mode = "code" ->
                IF text[i + 1] = "\n" THEN 1 + NewlinesInCode(text, i + 1, "code")
                ELSE IF text[i + 1] = "/" /\ CharAt(text, i + 1) = "/"
                THEN NewlinesInCode(text, i + 2, "line")
                ELSE IF text[i + 1] = "/" /\ CharAt(text, i + 1) = "*"
                THEN NewlinesInCode(text, i + 2, "block")
                ELSE IF text[i + 1] \in {"\"", "'"}
                THEN NewlinesInCode(text, i + 1, text[i + 1])
                ELSE NewlinesInCode(text, i + 1, "code")
           [] mode = "line" ->
                IF text[i + 1] = "\n" THEN 1 + NewlinesInCode(text, i + 1, "code")
                ELSE NewlinesInCode(text, i + 1, "line")
           [] mode = "block" ->
                IF text[i + 1] = "*" /\ CharAt(text, i + 1) = "/"
                THEN NewlinesInCode(text, i + 2, "code")
                ELSE NewlinesInCode(text, i + 1, "block")
           [] OTHER ->
                IF text[i + 1] = "\\" THEN NewlinesInCode(text, i + 2, mode)
                ELSE IF text[i + 1] = mode THEN NewlinesInCode(text, i + 1, "code")
                ELSE NewlinesInCode(text, i + 1, mode)

\* the number of NEWLINE tokens of toks
NewlineTokens(toks) == Cardinality({k \in 1..Len(toks) : toks[k].type = "NEWLINE"})

\* C23: the token sequence of a text has one NEWLINE token for each newline
\* character outside string literals and block comments (the one that ends a
\* // comment included) and no other NEWLINE token; a NEWLINE token has the
\* newline as its text, and no token has the kind WHITESPACE.
C23_OneNewlineTokenPerNewline ==
    /\ \A k \in 1..Len(lexer.tokens) :
           /\ lexer.tokens[k].type # "WHITESPACE"
           /\ lexer.tokens[k].type = "NEWLINE" => lexer.tokens[k].value = <<"\n">>
    /\ \A i \in Fresh :
           NewlineTokens(results[i].tokens) = NewlinesInCode(lexer.text, 0, "code")

\* C23 witness: the text of a NUL character and a newline has been scanned:
\* the only token is EOF
C23_Witness ==
    /\ lexPc = "used"
    /\ lexer.text = <<NUL, "\n">>
    /\ \E i \in Fresh : KindsOf(results[i].tokens) = <<"EOF_TOKEN">>

\* the 1-based indexes of the newline characters among the first p
\* characters of text
NewlinesBefore(text, p) == {k \in 1..p : text[k] = "\n"}

\* the 1-based line of the character at the 0-based index p of text
LineOf(text, p) == 1 + Cardinality(NewlinesBefore(text, p))

\* its 1-based column: its distance from the last newline before it, or from
\* the start of the text
ColumnOf(text, p) ==
    p + 1 - (CHOOSE m \in NewlinesBefore(text, p) \cup {0} :
                \A k \in NewlinesBefore(text, p) : k <= m)

\* the 0-based index after the closing quote q of the string literal whose
\* characters begin at the 0-based index i of text, -1 when it is not closed
RECURSIVE StringEnd(_, _, _)
StringEnd(text, i, q) ==
    IF i >= Len(text) THEN -1
    ELSE IF text[i + 1] = q THEN i + 1
    ELSE IF text[i + 1] = "\\" THEN StringEnd(text, i + 2, q)
    ELSE StringEnd(text, i + 1, q)

\* the token tok, whose scan ended at the 0-based index end, has its first
\* character at the 0-based index p of text: a string literal opens at p and
\* closes before end, any other token has its text from p to end
StartsAt(text, tok, p, end) ==
    IF tok.type = "STRING"
    THEN /\ text[p + 1] \in {"\"", "'"}
         /\ StringEnd(text, p + 1, text[p + 1]) = end
    ELSE /\ p + Len(tok.value) = end
         /\ SubSeq(text, p + 1, end) = tok.value

\* C24: a token returned by getNextToken whose kind is neither ERROR nor EOF
\* has the line and the column of its first character: the line is 1 plus the
\* number of newlines before the character, the column is 1 plus the number
\* of characters between the last newline (or the start of the text) and it.
C24_TokenPlace ==
    lexPc = "loop" =>
        LET r == getNextToken(lexer)
        IN  r.tok.type \notin {"ERROR", "EOF_TOKEN"} =>
                \E p \in lexer.pos..(r.lex.pos - 1) :
                    /\ StartsAt(lexer.text, r.tok, p, r.lex.pos)
                    /\ r.tok.line = LineOf(lexer.text, p)
                    /\ r.tok.column = ColumnOf(lexer.text, p)

\* C24 witness: the text of a newline, a space and the letter a has been
\* scanned: the identifier is at line 2, column 2
C24_Witness ==
    /\ lexPc = "used"
    /\ lexer.text = <<"\n", " ", "a">>
    /\ Len(lexer.tokens) = 3
    /\ lexer.tokens[2] = Token("IDENTIFIER", <<"a">>, 2, 2)

\* C25: when the next character is one that starts no token and is not
\* whitespace (the lone . apart, for which no error is recorded), the call of
\* getNextToken returns an ERROR token and records a lexical error that both
\* have the line and column of that character, and the text of the token is
\* that character.
C25_UnexpectedCharPlace ==
    (lexPc = "loop" /\ currentChar(lexer) \in UnexpectedChars \ {"."}) =>
        LET r == getNextToken(lexer)
            e == r.lex.errors[Len(r.lex.errors)]
        IN  /\ r.tok.type = "ERROR"
            /\ Len(r.lex.errors) = Len(lexer.errors) + 1
            /\ r.tok.line = LineOf(lexer.text, lexer.pos)
            /\ r.tok.column = ColumnOf(lexer.text, lexer.pos)
            /\ e.line = LineOf(lexer.text, lexer.pos)
            /\ e.column = ColumnOf(lexer.text, lexer.pos)
            /\ r.tok.value = <<currentChar(lexer)>>

\* C25 witness: the text @1 has been scanned: the ERROR token for @ has the
\* text 1 and column 2, and so has the recorded error
C25_Witness ==
    /\ lexPc = "used"
    /\ lexer.text = <<"@", "1">>
    /\ Len(lexer.tokens) = 3
    /\ lexer.tokens[1] = Token("ERROR", <<"1">>, 1, 2)
    /\ Len(lexer.errors) = 1
    /\ lexer.errors[1].line = 1 /\ lexer.errors[1].column = 2

\* C26: a call of tokenize() made on a Lexer right after an earlier call on
\* it, with no reset() between the two, returns the token sequence of the
\* earlier call and leaves its list of lexical errors.
C26_SecondTokenizeSame ==
    \A j \in Returned :
        (j > 1 /\ results[j].from = "used") =>
            /\ results[j].tokens = results[j - 1].tokens
            /\ results[j].errors = results[j - 1].errors

\* C26 witness: tokenize() has returned twice on the Lexer of the text a@,
\* with no reset(): first IDENTIFIER, ERROR, EOF and one error, then EOF alone
\* and no error
C26_Witness ==
    /\ lexer.text = <<"a", "@">>
    /\ Returned = {1, 2}
    /\ results[2].from = "used"
    /\ KindsOf(results[1].tokens) = <<"IDENTIFIER", "ERROR", "EOF_TOKEN">>
    /\ Len(results[1].errors) = 1
    /\ KindsOf(results[2].tokens) = <<"EOF_TOKEN">>
    /\ results[2].errors = << >>

\* C29: when tokenize() has returned, so after the EOF token, the scan
\* position is the length of the text: every character has been consumed,
\* also in a text that holds a NUL character.
C29_WholeTextScanned ==
    lexPc = "used" =>
        /\ lexer.tokens[Len(lexer.tokens)].type = "EOF_TOKEN"
        /\ lexer.pos = Len(lexer.text)

\* C29 witness: the text of a NUL character and the letter a has been
\* scanned: the only token is EOF and the scan position is still 0
C29_Witness ==
    /\ lexPc = "used"
    /\ lexer.text = <<NUL, "a">>
    /\ KindsOf(lexer.tokens) = <<"EOF_TOKEN">>
    /\ lexer.pos = 0

(***************************************************************************)
(* Properties of the parser, checked under ParseSpec and ParseSpecFair.    *)
(***************************************************************************)
\* the routine in progress and what its next run does
TopFrame == stack[Len(stack)]
NextRun == Routine(parser, TopFrame, returned)

\* C2: on every token sequence that ends in EOF, grammatical or not, parse()
\* returns, and what it returns is a Program node, never null.
C2_ParseTerminatesWithProgram ==
    /\ (parsePc = "running") ~> (parsePc = "done")
    /\ [](parsePc = "done" => program.kind = "Program")

\* C2 witness: parse() has returned a Program without statements and with
\* diagnostics
C2_Witness ==
    /\ parsePc = "done"
    /\ program = ProgramNode(<< >>)
    /\ Len(parser.errors) >= 2

\* the child slots of a node that the grammar requires
RequiredSlots(n) ==
    CASE n.kind = "IfStatement" -> <<n.condition, n.thenStatement>>
      [] n.kind = "WhileStatement" -> <<n.condition, n.body>>
      [] n.kind = "ForStatement" -> <<n.body>>
      [] n.kind = "BinaryExpression" -> <<n.left, n.right>>
      [] n.kind = "UnaryExpression" -> <<n.operand>>
      [] n.kind = "ExpressionStatement" -> <<n.expression>>
      [] n.kind = "FunctionDefinition" -> <<n.body>>
      [] OTHER -> << >>

\* C3: the node a parsing routine returns has every child slot that the
\* grammar requires filled, on erroneous token sequences too.
C3_RequiredChildrenPresent ==
    \A i \in 1..Len(RequiredSlots(returned)) : RequiredSlots(returned)[i] # Null

\* C3 witness: an if statement has been returned whose condition is the
\* placeholder literal
C3_Witness ==
    /\ returned.kind = "IfStatement"
    /\ returned.condition = LiteralNode(Str_ERROR, "ERROR")

\* the routines that parse an expression
ExpressionRoutines ==
    {"parseExpression", "parseUnary", "parsePrimary"}
        \cup {BinaryLevels[i] : i \in 1..Len(BinaryLevels)}

\* the token kinds that start an alternative of parsePrimary
PrimaryStarts == {"INTEGER", "FLOAT", "STRING", "IDENTIFIER", "LPAREN"}

\* parsePrimary is about to run on a token that starts no alternative
AtUnexpectedToken ==
    /\ stack # << >>
    /\ TopFrame.fn = "parsePrimary" /\ TopFrame.pc = "start"
    /\ getCurrentToken(parser).type \notin PrimaryStarts

\* C5: an expression routine never returns null, at any cursor position; and
\* on a token that starts no primary alternative parsePrimary records the one
\* diagnostic "Expected expression", returns the placeholder literal
\* Literal("ERROR", ERROR) and leaves the cursor where it is.
C5_ParseExpressionTotal ==
    /\ (stack # << >> /\ TopFrame.fn \in ExpressionRoutines /\ NextRun.push = << >>)
           => NextRun.ret # Null
    /\ AtUnexpectedToken =>
           /\ NextRun.push = << >>
           /\ NextRun.ret = LiteralNode(Str_ERROR, "ERROR")
           /\ NextRun.st.currentToken = parser.currentToken
           /\ NextRun.st.errors =
                  Append(parser.errors,
                         SyntaxError(<<"Expected expression">>,
                                     getCurrentToken(parser).line,
                                     getCurrentToken(parser).column))

\* C5 witness: parsePrimary is about to run on an unexpected token that is not
\* the first token, after an earlier diagnostic
C5_Witness ==
    /\ AtUnexpectedToken
    /\ parser.currentToken > 0 /\ ~isAtEnd(parser)
    /\ parser.errors # << >>

\* a statement loop is at the end of an iteration: parseStatement has returned
AtIterationEnd == stack # << >> /\ TopFrame.pc = "afterStatement"

\* what the rest of the iteration does
Iteration ==
    IF TopFrame.fn = "parseProgram"
    THEN programIteration(parser, TopFrame, returned)
    ELSE compoundIteration(parser, TopFrame, returned)

\* the diagnostic of the loop for a token it skips
RecoveryDiagnostic ==
    SyntaxError(IF TopFrame.fn = "parseProgram"
                THEN <<"Parser unable to process token, skipping">>
                ELSE <<"Parser stuck, skipping token">>,
                getCurrentToken(parser).line, getCurrentToken(parser).column)

\* C6: every iteration of the statement loops of parseProgram and of
\* parseCompoundStatement ends with the cursor beyond where it began; an
\* iteration in which parseStatement consumed no token skips exactly one token
\* and records exactly one recovery diagnostic, any other iteration records
\* none; so neither loop makes more iterations than there are tokens.
C6_StatementLoopsAdvance ==
    /\ iterations.parseProgram <= Len(parser.tokens)
    /\ iterations.parseCompoundStatement <= Len(parser.tokens)
    /\ AtIterationEnd =>
           /\ Iteration.st.currentToken > TopFrame.oldPos
           /\ IF parser.currentToken = TopFrame.oldPos
              THEN /\ Iteration.st.currentToken = TopFrame.oldPos + 1
                   /\ Iteration.st.errors = Append(parser.errors, RecoveryDiagnostic)
              ELSE Iteration.st.errors = parser.errors

\* C6 witness: the loop of a block ends its second iteration, in which no
\* token was consumed
C6_Witness ==
    /\ AtIterationEnd
    /\ TopFrame.fn = "parseCompoundStatement"
    /\ parser.currentToken = TopFrame.oldPos
    /\ iterations.parseCompoundStatement >= 1

\* the diagnostics errs with their columns moved n tokens to the right
Shifted(errs, n) ==
    [i \in 1..Len(errs) |-> [errs[i] EXCEPT !.column = @ + n]]

\* the token sequence of x = ; followed on the next line by the statement S
MissingRhsThen(S) == Stamp(MissingRhs \o <<"NEWLINE">> \o S)

\* the node of x = ; : the assignment of the placeholder literal to x
MissingRhsNode ==
    ExpressionStatementNode(
        BinaryExpressionNode(<<"=">>, IdentifierNode(<<"x">>),
                             LiteralNode(Str_ERROR, "ERROR")))

\* C7: x = ; records the one diagnostic "Expected expression", at the ';',
\* which it consumes, and the statement on the next line is parsed to the
\* node and with the diagnostics it has when parsed alone.
C7_MissingRhsRecovers ==
    \A S \in FollowStatements :
        (parsePc = "done" /\ parser.tokens = MissingRhsThen(S)) =>
            /\ program.statements =
                   <<MissingRhsNode>> \o parseResult(Stamp(S)).node.statements
            /\ parser.errors =
                   <<SyntaxError(<<"Expected expression">>, 1, Len(MissingRhs))>>
                       \o Shifted(parseResult(Stamp(S)).st.errors, Len(MissingRhs) + 1)

\* C7 witness: x = ; followed by a second x = ; has been parsed
C7_Witness ==
    /\ parsePc = "done"
    /\ parser.tokens = MissingRhsThen(MissingRhs)
    /\ Len(program.statements) = 2
    /\ Len(parser.errors) = 2

\* n nested if statements on the condition x: the innermost has the branches
\* t and e, the others have it as then-branch and no else-branch
RECURSIVE NestedIf(_, _, _)
NestedIf(n, t, e) ==
    IF n = 1 THEN IfStatementNode(IdentifierNode(<<"x">>), t, e)
    ELSE IfStatementNode(IdentifierNode(<<"x">>), NestedIf(n - 1, t, e), Null)

\* the node of the statement S parsed alone, Null if it yields none
AloneNode(S) ==
    IF parseResult(Stamp(S)).node.statements = << >> THEN Null
    ELSE parseResult(Stamp(S)).node.statements[1]

\* C9: in if (x) ... if (x) S1 else S2, nested without braces to any depth,
\* with or without a line break before the else, the else-branch S2 belongs to
\* the innermost if and no enclosing if has an else-branch.
C9_ElseBindsToInnermostIf ==
    \A n \in 1..MaxNest, S1 \in SimpleStatements, nl \in BOOLEAN, S2 \in SimpleStatements :
        (parsePc = "done" /\ parser.tokens = Stamp(IfChain(n, S1, nl, S2))) =>
            program.statements = <<NestedIf(n, AloneNode(S1), AloneNode(S2))>>

\* C9 witness: if (x) if (x) x = 1; else x; with the else on a new line has
\* been parsed; the inner if has the else-branch, the outer one has none
C9_Witness ==
    /\ parsePc = "done"
    /\ parser.tokens = Stamp(IfChain(2, <<"IDENTIFIER", "ASSIGN", "INTEGER", "SEMICOLON">>,
                                     TRUE, <<"IDENTIFIER", "SEMICOLON">>))
    /\ program.statements[1].elseStatement = Null
    /\ program.statements[1].thenStatement.elseStatement.kind = "ExpressionStatement"

\* C16: during a parse the cursor never decreases and never moves past the
\* first EOF token; parse() starts with the cursor at 0, also when the Parser
\* has parsed before, and when it returns the cursor is at the EOF token.
C16_CursorForwardOnly ==
    /\ [][(stack # << >> /\ TopFrame.fn # "parse")
              => parser'.currentToken >= parser.currentToken]_vars
    /\ [](/\ parser.currentToken < Len(parser.tokens)
          /\ \A i \in 1..parser.currentToken : parser.tokens[i].type # "EOF_TOKEN")
    /\ []((stack # << >> /\ TopFrame.fn = "parse") => NextRun.st.currentToken = 0)
    /\ [](parsePc = "done" => parser.tokens[parser.currentToken + 1].type = "EOF_TOKEN")

\* C16 witness: parse() is called again on a Parser whose cursor the first
\* parse() left at an EOF token that is not the last token
C16_Witness ==
    /\ parsePc = "running" /\ stack # << >> /\ TopFrame.fn = "parse"
    /\ parser.currentToken > 0
    /\ parser.currentToken + 1 < Len(parser.tokens)
    /\ parser.tokens[parser.currentToken + 1].type = "EOF_TOKEN"

\* the token at the 0-based index i of the vector toks, the EOF token of
\* getCurrentToken beyond its end
TokenAt(toks, i) == IF i < Len(toks) THEN toks[i + 1] ELSE eofToken

\* parseStatement is about to run from its start
AtStatement == stack # << >> /\ TopFrame.fn = "parseStatement" /\ TopFrame.pc = "start"

\* the 0-based index of the first token at or after the cursor that is not a
\* NEWLINE: the token parseStatement dispatches on
StatementStart ==
    CHOOSE i \in parser.currentToken..Len(parser.tokens) :
        /\ TokenAt(parser.tokens, i).type # "NEWLINE"
        /\ \A j \in parser.currentToken..(i - 1) :
               TokenAt(parser.tokens, j).type = "NEWLINE"

\* a type keyword, an IDENTIFIER and a ( at the index i and the two after it
FunctionHeaderAt(i) ==
    /\ TokenAt(parser.tokens, i).type \in {"INT", "FLOAT_KW", "CHAR", "VOID"}
    /\ TokenAt(parser.tokens, i + 1).type = "IDENTIFIER"
    /\ TokenAt(parser.tokens, i + 2).type = "LPAREN"

\* the end of the parameter list of the header at i: the index of the first )
\* or EOF after the (
ParametersEnd(i) ==
    CHOOSE j \in (i + 3)..Len(parser.tokens) :
        /\ TokenAt(parser.tokens, j).type \in {"RPAREN", "EOF_TOKEN"}
        /\ \A k \in (i + 3)..(j - 1) :
               TokenAt(parser.tokens, k).type \notin {"RPAREN", "EOF_TOKEN"}

\* the parameter list of the header at i is closed and a ; follows it
SemicolonFollows(i) ==
    /\ TokenAt(parser.tokens, ParametersEnd(i)).type = "RPAREN"
    /\ TokenAt(parser.tokens, ParametersEnd(i) + 1).type = "SEMICOLON"

\* C19: when the token parseStatement dispatches on is a type keyword (int,
\* float, char, void), the next is an IDENTIFIER and the one after it is (,
\* parseStatement returns a FunctionDeclaration when a ; follows the parameter
\* list and otherwise parses the body and returns a FunctionDefinition, never
\* a VarDeclaration; on any other three tokens it returns neither of the two;
\* and the cursor does not move backwards.
C19_FunctionLookahead ==
    /\ AtStatement =>
           /\ NextRun.st.currentToken >= parser.currentToken
           /\ IF FunctionHeaderAt(StatementStart)
              THEN IF SemicolonFollows(StatementStart)
                   THEN /\ NextRun.push = << >>
                        /\ NextRun.ret.kind = "FunctionDeclaration"
                        /\ NextRun.st.currentToken = ParametersEnd(StatementStart) + 2
                   ELSE /\ Len(NextRun.push) = 2
                        /\ NextRun.push[1].fn = "parseStatement"
                        /\ NextRun.push[1].pc = "functionBody"
                        /\ NextRun.push[2] = NewFrame("parseCompoundStatement")
              ELSE /\ NextRun.ret.kind \notin {"FunctionDeclaration", "FunctionDefinition"}
                   /\ \A k \in 1..Len(NextRun.push) : NextRun.push[k].pc # "functionBody"
    /\ (stack # << >> /\ TopFrame.fn = "parseStatement" /\ TopFrame.pc = "functionBody") =>
           /\ NextRun.push = << >>
           /\ NextRun.ret.kind = "FunctionDefinition"
           /\ NextRun.st.currentToken >= parser.currentToken

\* C19 witness: the body of a void function with two parameters has been
\* parsed and parseStatement is about to return its FunctionDefinition
C19_Witness ==
    /\ stack # << >> /\ TopFrame.fn = "parseStatement" /\ TopFrame.pc = "functionBody"
    /\ TopFrame.returnType = Str_void
    /\ Len(TopFrame.parameters) = 2
    /\ returned.kind = "CompoundStatement"

\* the diagnostics errs, those at a column after k moved n columns on
ShiftedAfter(errs, k, n) ==
    [i \in 1..Len(errs) |->
        IF errs[i].column > k THEN [errs[i] EXCEPT !.column = @ + n] ELSE errs[i]]

\* C28: a header of Headers, one or more NEWLINE tokens and a body of Bodies
\* are parsed to the program that the header and the body without the NEWLINE
\* tokens are parsed to, with the same diagnostics, at the same tokens.
C28_BodyOnNextLine ==
    \A h \in Headers : \A b \in Bodies : \A n \in 1..MaxNewlines :
        (parsePc = "done" /\ parser.tokens = Stamp(h \o Newlines(n) \o b)) =>
            /\ program = parseResult(Stamp(h \o b)).node
            /\ parser.errors = ShiftedAfter(parseResult(Stamp(h \o b)).st.errors, Len(h), n)

\* C28 witness: the function header int x ( ), a NEWLINE and the block { }
\* have been parsed: a diagnostic, and the block nested in the function's body
C28_Witness ==
    /\ parsePc = "done"
    /\ parser.tokens = Stamp(<<"INT", "IDENTIFIER", "LPAREN", "RPAREN", "NEWLINE",
                               "LBRACE", "RBRACE">>)
    /\ parser.errors # << >>
    /\ program.statements[1].kind = "FunctionDefinition"
    /\ program.statements[1].body.statements # << >>

\* C30: the statement list of every Program and of every CompoundStatement a
\* routine returns, and of the program parse() returns, holds no null entry.
C30_NoNullStatement ==
    /\ returned.kind \in {"Program", "CompoundStatement"} =>
           \A k \in 1..Len(returned.statements) : returned.statements[k] # Null
    /\ program # Null =>
           \A k \in 1..Len(program.statements) : program.statements[k] # Null

\* C30 witness: parse() has returned for the tokens ; { ; : the two empty
\* statements gave no node, the program holds the block alone and the block
\* holds nothing
C30_Witness ==
    /\ parsePc = "done"
    /\ KindsOf(parser.tokens) = <<"SEMICOLON", "LBRACE", "SEMICOLON", "EOF_TOKEN">>
    /\ Len(program.statements) = 1
    /\ program.statements[1].kind = "CompoundStatement"
    /\ program.statements[1].statements = << >>

\* the texts of the IDENTIFIER tokens of the input
IdentifierTexts ==
    {parser.tokens[k].value : k \in {j \in 1..Len(parser.tokens) :
                                        parser.tokens[j].type = "IDENTIFIER"}}

\* C27: the name of every VarDeclaration node a routine returns, and of every
\* parameter of a function node it returns, is the text of an IDENTIFIER token
\* of the input, on erroneous input too.
C27_VarDeclarationNamesAreIdentifiers ==
    /\ returned.kind = "VarDeclaration" => returned.identifier \in IdentifierTexts
    /\ returned.kind \in {"FunctionDeclaration", "FunctionDefinition"} =>
           \A k \in 1..Len(returned.parameters) :
               returned.parameters[k].identifier \in IdentifierTexts

\* C27 witness: parseVarDeclaration has returned, for the tokens int 1, a
\* VarDeclaration whose name is the text of the INTEGER token, with a
\* diagnostic
C27_Witness ==
    /\ Len(parser.tokens) >= 2
    /\ parser.tokens[1].type = "INT" /\ parser.tokens[2].type = "INTEGER"
    /\ returned.kind = "VarDeclaration"
    /\ returned.identifier = parser.tokens[2].value
    /\ parser.errors # << >>

\* the nodes of the expressions of ForInits and ForConditions and of the
\* statements of ForBodies
ForInitNodes ==
    << LiteralNode(<<"0">>, "INTEGER"),
       IdentifierNode(<<"n">>),
       BinaryExpressionNode(<<"+">>, IdentifierNode(<<"n">>),
                            LiteralNode(<<"1">>, "INTEGER")) >>
ForConditionNodes ==
    << BinaryExpressionNode(<<"<">>, IdentifierNode(<<"i">>),
                            LiteralNode(<<"1", "0">>, "INTEGER")),
       IdentifierNode(<<"i">>),
       BinaryExpressionNode(<<"<", "=">>, IdentifierNode(<<"i">>),
           BinaryExpressionNode(<<"-">>, IdentifierNode(<<"n">>),
                                LiteralNode(<<"1">>, "INTEGER"))) >>
ForBodyNodes ==
    << << >>,
       <<ExpressionStatementNode(
             BinaryExpressionNode(<<"=">>, IdentifierNode(<<"x">>),
                 BinaryExpressionNode(<<"+">>, IdentifierNode(<<"x">>),
                                      LiteralNode(<<"1">>, "INTEGER"))))>>,
       <<ExpressionStatementNode(FunctionCallNode(<<"x">>, <<IdentifierNode(<<"i">>)>>)),
         ContinueStatementNode>> >>

\* C12: for (T i = e1; e2; i++) { body } is parsed without a diagnostic to the
\* ForStatement whose initialization is the VarDeclaration of i with the
\* initializer e1, whose condition is e2, whose update is the postfix
\* increment of i, the Identifier "i++", and whose body is the
\* CompoundStatement of the statements of the body.
C12_ForStatementParsed ==
    (parsePc = "done" /\ parser.tokens[1].type = "FOR") =>
        \A T \in TypeKinds, a \in 1..Len(ForInits), b \in 1..Len(ForConditions),
           c \in 1..Len(ForBodies) :
            parser.tokens = StampTokens(ForTokens(T, a, b, c)) =>
                /\ program =
                       ProgramNode(<<ForStatementNode(
                           VarDeclarationNode(Lexeme(T), <<"i">>, ForInitNodes[a]),
                           ForConditionNodes[b],
                           IdentifierNode(<<"i", "+", "+">>),
                           CompoundStatementNode(ForBodyNodes[c]))>>)
                /\ parser.errors = << >>

\* C12 witness: for (char i = n + 1; i <= n - 1; i++) { x(i); continue; } has
\* been parsed to a ForStatement with two statements in its body
C12_Witness ==
    /\ parsePc = "done"
    /\ parser.tokens = StampTokens(ForTokens("CHAR", 3, 3, 3))
    /\ program.statements[1].kind = "ForStatement"
    /\ Len(program.statements[1].body.statements) = 2

(***************************************************************************)
(* Properties of the two diagnostics lists, checked under SyntaxOnlySpec.  *)
(***************************************************************************)
\* the place a is not after the place b: places are records with a line and
\* a column (tokens, diagnostics, the Lexer itself)
NotAfter(a, b) == a.line < b.line \/ (a.line = b.line /\ a.column <= b.column)

\* the diagnostics of errs are in the order of their places
InSourceOrder(errs) ==
    \A i, j \in 1..Len(errs) : i < j => NotAfter(errs[i], errs[j])

\* the list b is the list a with zero or more elements appended
Extends(b, a) == Len(a) <= Len(b) /\ SubSeq(b, 1, Len(a)) = a

\* the elements b has after those of a
Added(b, a) == SubSeq(b, Len(a) + 1, Len(b))

\* C20: while parse() runs, its diagnostics list only grows at its end, every
\* new diagnostic has the place of a token between the cursor before the step
\* and the cursor after it, and the list is in the order of the token places;
\* while tokenize() runs, the lexical errors list only grows at its end, every
\* new error has a place between the Lexer's place before the step and after
\* it, and the list is in the order of the source places.
C20_DiagnosticsInOrder ==
    /\ [][parsePc = "running" =>
              /\ Extends(parser'.errors, parser.errors)
              /\ \A k \in 1..Len(Added(parser'.errors, parser.errors)) :
                     \E i \in parser.currentToken..parser'.currentToken :
                         /\ Added(parser'.errors, parser.errors)[k].line =
                                TokenAt(parser.tokens, i).line
                         /\ Added(parser'.errors, parser.errors)[k].column =
                                TokenAt(parser.tokens, i).column]_vars
    /\ [][lexPc = "loop" =>
              /\ Extends(lexer'.errors, lexer.errors)
              /\ \A k \in 1..Len(Added(lexer'.errors, lexer.errors)) :
                     /\ NotAfter(lexer, Added(lexer'.errors, lexer.errors)[k])
                     /\ NotAfter(Added(lexer'.errors, lexer.errors)[k], lexer')]_vars
    /\ [](InSourceOrder(parser.errors) /\ InSourceOrder(lexer.errors))
    /\ [](\A i, j \in 1..Len(parser.tokens) :
              i < j => NotAfter(parser.tokens[i], parser.tokens[j]))

\* C20 witness: parse() has returned with two syntax diagnostics at different
\* places, on the tokens of a text that gave two lexical errors
C20_Witness ==
    /\ parsePc = "done"
    /\ Len(parser.errors) >= 2
    /\ parser.errors[1].column # parser.errors[2].column
    /\ Len(lexer.errors) >= 2

(***************************************************************************)
(* Properties of consume() and synchronize(), checked under HelperSpec.    *)
(***************************************************************************)

\* C17: consume(type, message) on a mismatch, the current token not being of
\* the given type or being EOF, records exactly one diagnostic, stamped with
\* the line and column of the current token, and leaves the cursor where it
\* is; on a match it advances the cursor by exactly one and records nothing.
C17_ConsumeFrameEffect ==
    called.op = "consume" =>
        LET b == called.before
            current == TokenAt(b.tokens, b.currentToken)
        IN  /\ parser.tokens = b.tokens
            /\ IF current.type # called.type \/ current.type = "EOF_TOKEN"
               THEN /\ parser.currentToken = b.currentToken
                    /\ parser.errors =
                           Append(b.errors, SyntaxError(<<"Expected token">>,
                                                        current.line, current.column))
               ELSE /\ parser.currentToken = b.currentToken + 1
                    /\ parser.errors = b.errors

\* C17 witness: consume(EOF_TOKEN, ...) has been called at the EOF token, after
\* an earlier diagnostic, and has recorded a second one
C17_Witness ==
    /\ called.op = "consume" /\ called.type = "EOF_TOKEN"
    /\ called.before.currentToken = 2
    /\ TokenAt(called.before.tokens, 2).type = "EOF_TOKEN"
    /\ Len(parser.errors) = 2

\* the keywords that introduce a statement
StatementKeywords ==
    {"INT", "FLOAT_KW", "CHAR", "VOID", "IF", "WHILE", "FOR", "RETURN", "BREAK",
     "CONTINUE"}

\* C18: synchronize discards at least one token unless the cursor is already
\* at EOF; when it returns the cursor is at EOF, or just past a ;, or at a
\* keyword that introduces a statement; and no such keyword that lies after
\* the first discarded token is skipped.
C18_SynchronizeStopsAtStatementStart ==
    called.op = "synchronize" =>
        LET toks == called.before.tokens
            from == called.before.currentToken
            to == parser.currentToken
        IN  /\ TokenAt(toks, from).type # "EOF_TOKEN" => to > from
            /\ \/ TokenAt(toks, to).type = "EOF_TOKEN"
               \/ to > from /\ TokenAt(toks, to - 1).type = "SEMICOLON"
               \/ TokenAt(toks, to).type \in StatementKeywords
            /\ \A i \in (from + 1)..(to - 1) : TokenAt(toks, i).type \notin StatementKeywords

\* C18 witness: synchronize has been called on x void ; and has returned
\* with the cursor beyond the keyword
C18_Witness ==
    /\ called.op = "synchronize"
    /\ called.before.currentToken = 0
    /\ KindsOf(called.before.tokens) = <<"IDENTIFIER", "VOID", "SEMICOLON", "EOF_TOKEN">>
    /\ parser.currentToken = 3

(***************************************************************************)
(* Properties of the expression routines, checked under ExprSpec.          *)
(***************************************************************************)
\* the precedence level of a binary operator, 1 the lowest
PrecedenceLevel(kind) ==
    CASE kind = "OR" -> 1
      [] kind = "AND" -> 2
      [] kind \in {"EQ", "NE"} -> 3
      [] kind \in {"LANGLE", "LE", "RANGLE", "GE"} -> 4
      [] kind \in {"PLUS", "MINUS"} -> 5
      [] kind \in {"MULTIPLY", "DIVIDE", "MODULO"} -> 6
      [] OTHER -> 0

\* the positions lo < k < hi of toks that hold a binary operator: an operator
\* token that follows an operand
BinaryPositions(toks, lo, hi) ==
    {k \in (lo + 1)..(hi - 1) :
        PrecedenceLevel(toks[k].type) > 0 /\ toks[k - 1].type = "IDENTIFIER"}

\* the tree of the expression toks[lo..hi] by precedence and associativity
\* alone: it is split at the last of its binary operators of the lowest
\* level; without a binary operator, a prefix operator applies to the rest
RECURSIVE ExpectedTree(_, _, _)
ExpectedTree(toks, lo, hi) ==
    LET B == BinaryPositions(toks, lo, hi)
    IN  IF B = {}
        THEN IF toks[lo].type \in {"NOT", "MINUS"}
             THEN UnaryExpressionNode(toks[lo].value, ExpectedTree(toks, lo + 1, hi))
             ELSE IdentifierNode(toks[lo].value)
        ELSE LET lowest == CHOOSE k \in B :
                               \A j \in B : PrecedenceLevel(toks[k].type)
                                                <= PrecedenceLevel(toks[j].type)
                 k == CHOOSE k \in B :
                          /\ PrecedenceLevel(toks[k].type) = PrecedenceLevel(toks[lowest].type)
                          /\ \A j \in B : PrecedenceLevel(toks[j].type)
                                               = PrecedenceLevel(toks[lowest].type) => j <= k
             IN  BinaryExpressionNode(toks[k].value, ExpectedTree(toks, lo, k - 1),
                                      ExpectedTree(toks, k + 1, hi))

\* C13: an expression over binary operators is parsed to the tree in which
\* operators of one level associate to the left and an operator of a higher
\* level binds tighter than one of a lower level, the levels being, ascending,
\* ||, &&, == !=, < <= > >=, + -, * / %, and the prefix operators ! and -
\* binding tighter than every binary operator.
C13_PrecedenceAndAssociativity ==
    parsePc = "done" =>
        /\ program =
               ProgramNode(<<ExpressionStatementNode(
                   ExpectedTree(parser.tokens, 1, Len(parser.tokens) - 2))>>)
        /\ parser.errors = << >>

\* C13 witness: a - b - c; has been parsed: the left operand of the second -
\* is the node of a - b
C13_Witness ==
    /\ parsePc = "done"
    /\ parser.tokens = StampTokens(ExprTokens(<<"MINUS", "MINUS">>))
    /\ program.statements[1].expression.left =
           BinaryExpressionNode(<<"-">>, IdentifierNode(<<"a">>), IdentifierNode(<<"b">>))

(***************************************************************************)
(* Properties of the driver, checked under Spec.                           *)
(***************************************************************************)
\* the token text and the token kind of each literal of LiteralTexts
LiteralValues ==
    << <<"5">>, <<"1", "0">>, <<"1", ".", "5">>, <<"a", "b">>, <<"c">>, <<"\n">> >>
LiteralKinds == <<"INTEGER", "INTEGER", "FLOAT", "STRING", "STRING", "STRING">>

\* C11: a declaration T name = literal; with T one of int, float and char is
\* tokenized to the keyword of T, IDENTIFIER(name), ASSIGN, the literal token,
\* SEMICOLON and EOF, and parsed to a Program of the one statement
\* VarDeclaration{T, name, Literal(text of the literal token, its kind)},
\* without any lexical or syntax diagnostic.
C11_DeclarationTokenizedAndParsed ==
    \A T \in {Str_int, Str_float, Str_char}, name \in DeclNames,
       l \in 1..Len(LiteralTexts), sp \in Spacings :
        (analyzer.pc = "done" /\ analyzer.sourceCode = DeclarationText(T, name, l, sp)) =>
            /\ KindsOf(analyzer.tokens) =
                   <<getKeywordType(T), "IDENTIFIER", "ASSIGN", LiteralKinds[l],
                     "SEMICOLON", "EOF_TOKEN">>
            /\ ValuesOf(analyzer.tokens) =
                   <<T, name, <<"=">>, LiteralValues[l], <<";">>, << >> >>
            /\ analyzer.ast =
                   ProgramNode(<<VarDeclarationNode(T, name,
                                    LiteralNode(LiteralValues[l], LiteralKinds[l]))>>)
            /\ analyzer.lexicalSuccess /\ analyzer.syntaxSuccess
            /\ analyzer.errors = << >> /\ analyzer.report = << >>

\* C11 witness: float _n = 1.5; has been analyzed, its initializer is a FLOAT
\* literal
C11_Witness ==
    /\ analyzer.pc = "done"
    /\ analyzer.sourceCode = DeclarationText(Str_float, <<"_", "n">>, 3, <<" ">>)
    /\ analyzer.ast.statements[1].initializer = LiteralNode(<<"1", ".", "5">>, "FLOAT")

\* C10: the report of analyze holds all lexical diagnostics of the text and
\* all syntax diagnostics of its token sequence, whether or not the scanner
\* found errors.
C10_ReportHasAllDiagnostics ==
    analyzer.pc = "done" =>
        analyzer.report =
            addErrors(<< >>, "LEXICAL_ERROR",
                      tokenize(NewLexer(analyzer.sourceCode)).errors)
            \o addErrors(<< >>, "SYNTAX_ERROR",
                   parseResult(tokenize(NewLexer(analyzer.sourceCode)).tokens).st.errors)

\* C10 witness: analyze has finished on a text with lexical errors, and the
\* report holds them
C10_Witness ==
    /\ analyzer.pc = "done"
    /\ ~analyzer.lexicalSuccess
    /\ SelectType(analyzer.report, "LEXICAL_ERROR") # << >>

====
